---- MODULE Spec2Model ----
(***************************************************************************)
(* Model of the mail-archive server: the REST handlers of server/routes.ts *)
(* (src/unnamed/part_001), the storage layer (src/server/eml-parser.ts),   *)
(* the request schemas (src/shared/schema.ts) and the LLM helpers          *)
(* (src/unnamed/part_002, src/server/ollama.ts).                           *)
(*                                                                         *)
(* Free text (subjects, bodies, search terms) is a sequence of one-letter  *)
(* strings; enumerated columns (classification, role, ...) are strings.    *)
(* A handler takes one step for every storage call it awaits; a call of    *)
(* the LLM is taken together with the storage call that follows it, or is  *)
(* a step of its own when none follows.                                    *)
(***************************************************************************)
EXTENDS Integers, Sequences, FiniteSets, TLC

VARIABLES area, mode, emails, calendarEvents, ragChunks, conversations, messages,
          importLogs, appSettings, req, call

vars == <<area, mode, emails, calendarEvents, ragChunks, conversations, messages,
          importLogs, appSettings, req, call>>

store == <<emails, calendarEvents, ragChunks, conversations, messages, importLogs, appSettings>>

\* the tables the mail handlers leave alone, and those the chat handlers leave alone
chatTables == <<conversations, messages, appSettings>>
mailTables == <<emails, calendarEvents, ragChunks, importLogs>>

(***************************************************************************)
(* Bounds of the model.                                                    *)
(***************************************************************************)
MaxEmails == 2
MaxBatch == 2
MaxEvents == 1
MaxChunks == 1
MaxMessages == 2
MaxConversations == 1
MaxHits == 2
MaxBm25 == 2
MaxRequests == 2

(***************************************************************************)
(* JavaScript values.                                                      *)
(***************************************************************************)
NULL == "null"
UNDEF == -1
NoText == <<"undefined">>

Truthy(s) == s # NULL /\ s # ""

\* String.prototype.toLowerCase on a text
Upper == <<"A", "B", "C", "D", "E", "F", "G", "H", "I", "J", "K", "L", "M",
           "N", "O", "P", "Q", "R", "S", "T", "U", "V", "W", "X", "Y", "Z">>
Lower == <<"a", "b", "c", "d", "e", "f", "g", "h", "i", "j", "k", "l", "m",
           "n", "o", "p", "q", "r", "s", "t", "u", "v", "w", "x", "y", "z">>

lowerChar(c) ==
    IF \E i \in DOMAIN Upper : Upper[i] = c
    THEN Lower[CHOOSE i \in DOMAIN Upper : Upper[i] = c]
    ELSE c

toLowerCase(s) == [i \in DOMAIN s |-> lowerChar(s[i])]

\* s.split(sep) for a one-letter separator
RECURSIVE splitOn(_, _)
splitOn(s, sep) ==
    IF \A i \in DOMAIN s : s[i] # sep THEN <<s>>
    ELSE LET k == CHOOSE i \in DOMAIN s : s[i] = sep /\ \A j \in 1..(i - 1) : s[j] # sep
         IN <<SubSeq(s, 1, k - 1)>> \o splitOn(SubSeq(s, k + 1, Len(s)), sep)

(***************************************************************************)
(* The LLM's answer to the classification prompt, and classifyEmail.       *)
(***************************************************************************)
Allowed == {"task", "meeting", "approval", "notice"}
Confidences == {"high", "medium", "low"}

LLMOutputs ==
    [kind : {"throw", "nojson", "malformed"}, classification : {NULL}, confidence : {NULL}]
    \cup [kind : {"json"},
          classification : Allowed \cup {"reference", "unknown", "none", "TASK", "", "1", NULL},
          confidence : Confidences \cup {"HIGH", "certain", "0.9", "", NULL}]

classifyEmail_nocheck(raw) ==
    IF raw.kind = "throw" THEN [classification |-> "task", confidence |-> "low"]
    ELSE IF raw.kind = "nojson" THEN [classification |-> "task", confidence |-> "low"]
    ELSE IF raw.kind = "malformed" THEN [classification |-> "task", confidence |-> "low"]
    ELSE [classification |-> raw.classification,
          confidence |-> IF raw.confidence \in Confidences THEN raw.confidence ELSE "medium"]

classifyEmail(raw) ==
    IF raw.kind = "throw" THEN [classification |-> "task", confidence |-> "low"]
    ELSE IF raw.kind = "nojson" THEN [classification |-> "task", confidence |-> "low"]
    ELSE IF raw.kind = "malformed" THEN [classification |-> "task", confidence |-> "low"]
    ELSE [classification |-> IF raw.classification \in Allowed THEN raw.classification ELSE "task",
          confidence |-> IF raw.confidence \in Confidences THEN raw.confidence ELSE "medium"]

\* a call of classifyEmail: the LLM's output, then the value returned
NoCall == [fn |-> "none", pc |-> "returned", arg |-> NULL, result |-> <<>>]

ClassifyCall(raw) == [fn |-> "classifyEmail", pc |-> "called", arg |-> raw, result |-> <<>>]

ClassifyReturn ==
    /\ call.fn = "classifyEmail" /\ call.pc = "called"
    /\ call' = [call EXCEPT !.pc = "returned", !.result = <<classifyEmail(call.arg)>>]
    /\ UNCHANGED <<area, mode, emails, calendarEvents, ragChunks, conversations, messages,
                   importLogs, appSettings, req>>

(***************************************************************************)
(* Storage operations (IStorage).  Rows get serial ids, so the id of a row *)
(* is its position in the table.  The columns created_at and updated_at    *)
(* hold a logical time: the statement that writes a row of a table runs    *)
(* later than the statements that wrote the rows already in it, and the    *)
(* rows of one INSERT statement get the same time.                         *)
(***************************************************************************)
later(times) == IF times = {} THEN 1 ELSE 1 + (CHOOSE t \in times : \A u \in times : u <= t)

\* defaultNow() of the statement that writes into tbl next
now(tbl) == later({tbl[i].createdAt : i \in DOMAIN tbl})

\* ORDER BY key DESC and ORDER BY key; rows with equal keys stay in the order of their ids
orderByDesc(tbl, key) ==
    LET before(i) == {j \in DOMAIN tbl : \/ tbl[j][key] > tbl[i][key]
                                         \/ tbl[j][key] = tbl[i][key] /\ j < i}
    IN [k \in DOMAIN tbl |-> tbl[CHOOSE i \in DOMAIN tbl : Cardinality(before(i)) = k - 1]]

orderBy(tbl, key) ==
    LET before(i) == {j \in DOMAIN tbl : \/ tbl[j][key] < tbl[i][key]
                                         \/ tbl[j][key] = tbl[i][key] /\ j < i}
    IN [k \in DOMAIN tbl |-> tbl[CHOOSE i \in DOMAIN tbl : Cardinality(before(i)) = k - 1]]

\* .limit(n)
take(tbl, n) == SubSeq(tbl, 1, IF Len(tbl) < n THEN Len(tbl) ELSE n)

\* the value stored in a column that the caller may leave out: DatabaseStorage stores
\* the value passed and the default of the column when none is passed,
\* LocalSQLiteStorage stores email.field || default
Column(e, field, default) ==
    IF field \notin DOMAIN e THEN default
    ELSE IF mode = "local" /\ ~Truthy(e[field]) THEN default
    ELSE e[field]

NewEmail(id, e, createdAt) ==
    [id |-> id, subject |-> e.subject, sender |-> e.sender, date |-> e.date,
     body |-> e.body, classification |-> Column(e, "classification", NULL),
     classificationConfidence |-> Column(e, "classificationConfidence", NULL),
     isProcessed |-> Column(e, "isProcessed", "false"), createdAt |-> createdAt]

RECURSIVE insertRows(_, _, _)
insertRows(tbl, es, createdAt) ==
    IF es = <<>> THEN tbl
    ELSE insertRows(Append(tbl, NewEmail(Len(tbl) + 1, Head(es), createdAt)), Tail(es), createdAt)

\* one INSERT of all the rows
insertEmailsAndGetIds(tbl, es) == insertRows(tbl, es, now(tbl))

getEmailById(tbl, id) == SelectSeq(tbl, LAMBDA e : e.id = id)

updateEmailClassification(tbl, id, classification, confidence) ==
    [i \in DOMAIN tbl |->
        IF tbl[i].id = id
        THEN [tbl[i] EXCEPT !.classification = classification,
                            !.classificationConfidence = confidence]
        ELSE tbl[i]]

markEmailProcessed(tbl, id) ==
    [i \in DOMAIN tbl |->
        IF tbl[i].id = id THEN [tbl[i] EXCEPT !.isProcessed = "true"] ELSE tbl[i]]

\* the limit of the two handlers that read every email, and the default of GET /api/emails
ALL_EMAILS_LIMIT == 100000
EMAILS_DEFAULT_LIMIT == 100

getAllEmails(tbl, n) == take(orderByDesc(tbl, "createdAt"), n)

getUnprocessedEmails(tbl) ==
    orderBy(SelectSeq(tbl, LAMBDA e : e.isProcessed = "false"), "createdAt")

addCalendarEvent(tbl, emailId, title) ==
    Append(tbl, [emailId |-> emailId, title |-> title, createdAt |-> now(tbl)])

getCalendarEventsByEmailId(tbl, emailId) ==
    orderByDesc(SelectSeq(tbl, LAMBDA ev : ev.emailId = emailId), "createdAt")

saveRagChunks(tbl, emailId, n) ==
    tbl \o [i \in 1..n |-> [emailId |-> emailId, chunkIndex |-> i - 1]]

getRagChunksByEmailId(tbl, emailId) ==
    SelectSeq(tbl, LAMBDA c : c.emailId = emailId)

logImport_none(tbl, filename, n) == tbl

logImport(tbl, filename, n) ==
    Append(tbl, [filename |-> filename, emailsImported |-> n])

createConversation(tbl, title) ==
    Append(tbl, [id |-> Len(tbl) + 1, title |-> title,
                 updatedAt |-> later({tbl[i].updatedAt : i \in DOMAIN tbl})])

\* the INSERT of addMessage, and its UPDATE of the conversation's updated_at
addMessage(tbl, conversationId, role, content) ==
    Append(tbl, [conversationId |-> conversationId, role |-> role, content |-> content,
                 createdAt |-> now(tbl)])

touchConversation(tbl, conversationId) ==
    [i \in DOMAIN tbl |->
        IF tbl[i].id = conversationId
        THEN [tbl[i] EXCEPT !.updatedAt = later({tbl[j].updatedAt : j \in DOMAIN tbl})]
        ELSE tbl[i]]

getConversations(tbl) == orderByDesc(tbl, "updatedAt")

\* the row of app_settings with the key, as a sequence of at most one row; null is <<>>
getAppSetting(tbl) == take(tbl, 1)

\* the statement setAppSetting runs once its getAppSetting has returned existing: the
\* UPDATE of the row, or the INSERT, which the unique key rejects when the row is
\* there by now
setAppSetting(tbl, existing, value) ==
    IF existing # <<>> THEN [threw |-> FALSE, rows |-> [i \in DOMAIN tbl |-> value]]
    ELSE IF tbl # <<>> THEN [threw |-> TRUE, rows |-> tbl]
    ELSE [threw |-> FALSE, rows |-> <<value>>]

\* the methods of IStorage that no route calls: the INSERT of insertEmail, the INSERTs
\* of insertEmails (one transaction), the DELETE of clearCalendarEvents, and the two
\* statements of clearRagChunks, which awaits getRagChunkCount and then runs its DELETE
insertEmail(tbl, e) == insertRows(tbl, <<e>>, now(tbl))

insertEmails(tbl, es) == insertRows(tbl, es, now(tbl))

clearCalendarEvents(tbl) == <<>>

getRagChunkCount(tbl) == Len(tbl)

clearRagChunks(tbl) == <<>>

getMessages(tbl, conversationId) ==
    orderBy(SelectSeq(tbl, LAMBDA m : m.conversationId = conversationId), "createdAt")

(***************************************************************************)
(* Uploaded files.  emails is what the parser of the file's format finds   *)
(* in the file; errors counts the messages in PSTParseResult.errors.       *)
(***************************************************************************)
MainEmail == [subject |-> <<"a">>, sender |-> <<"x">>, date |-> <<"1">>, body |-> <<"b">>]

ParsedBatches == UNION {[1..n -> {MainEmail}] : n \in 0..MaxBatch}

JsonName == <<"a", ".", "b", ".", "J", "s", "o", "n">>
PstName == <<"m", ".", "P", "S", "T">>

Filenames == {JsonName, PstName,
              <<"m", ".", "e", "m", "l">>,
              <<"m", ".", "M", "B", "O", "X">>,
              <<"m", ".", "z", "i", "p">>}

\* filename.toLowerCase().split(".").pop()
ExtOf(name) == LET parts == splitOn(toLowerCase(name), ".") IN parts[Len(parts)]

Json == <<"j", "s", "o", "n">>
Pst == <<"p", "s", "t">>
Eml == <<"e", "m", "l">>
Mbox == <<"m", "b", "o", "x">>

\* a request without a file
NoFile == [present |-> FALSE, name |-> <<>>, emails |-> <<>>, errors |-> 0]

Files ==
    [present : {TRUE}, name : Filenames, emails : ParsedBatches, errors : {0}]
    \cup [present : {TRUE}, name : {PstName}, emails : ParsedBatches, errors : {1}]
    \cup {NoFile}

NSampleEmails == 8
generateSampleEmails == [i \in 1..NSampleEmails |-> MainEmail]

(***************************************************************************)
(* What the environment does while one email is processed: the LLM's       *)
(* classification answer, the events extractEventsFromEmail returns, the   *)
(* number of chunks generateEmailChunks returns, and the calls that throw. *)
(* An extracted event is "ok", "emptyTitle" (its title is the empty        *)
(* string), "emptyStart" (its start date is the empty string), "missing"   *)
(* (its title or start date is undefined), "addFails" (storage rejects the *)
(* insert) or "null" (the element is null, so reading its title is a       *)
(* TypeError).                                                             *)
(***************************************************************************)
MainLLMOutputs == {[kind |-> "json", classification |-> "meeting", confidence |-> "certain"]}

EventKinds == {"ok", "emptyTitle", "emptyStart", "missing", "addFails", "null"}
EventSeqs == UNION {[1..n -> EventKinds] : n \in 0..MaxEvents}

\* event.title of an event that has one
TitleOf(kind) == IF kind = "emptyTitle" THEN "" ELSE "title"

\* !event.title || !event.startDate
Invalid(kind) == kind \in {"emptyTitle", "emptyStart", "missing"}

(***************************************************************************)
(* Requests.  A handler takes one step per call it awaits; pc names the    *)
(* call it awaits next.  sent lists the responses the handler has written, *)
(* faults the calls of the request that threw, skipped what threw inside   *)
(* the try/catch of a loop iteration, caught tells whether an exception    *)
(* reached the handler's outermost catch, escaped whether one left the     *)
(* handler.  queue holds the emails a loop    *)
(* goes through, idx the position of the loop, pending the extracted       *)
(* events not yet stored, nth the number of requests received so far.      *)
(***************************************************************************)
NewReq(handler, input) ==
    [handler |-> handler, pc |-> "start", nth |-> 0, input |-> input, sent |-> <<>>,
     escaped |-> FALSE,
     caught |-> FALSE, skipped |-> {}, faults |-> {}, trace |-> <<>>, connected |-> FALSE, queue |-> <<>>,
     idx |-> 1, oks |-> <<>>, pending |-> <<>>,
     classified |-> 0, eventsExtracted |-> 0, embedded |-> 0]

Idle == [NewReq("none", NULL) EXCEPT !.pc = "done"]

Resp(status, body) == [status |-> status, body |-> body]

\* the call of callee threw ("event": reading the title of an event that is null)
Threw(r, callee) == [r EXCEPT !.faults = @ \cup {callee}]

\* res.json / res.status(..).json followed by return (or by the end of the handler)
Send(r, status, body) == [r EXCEPT !.pc = "done", !.sent = Append(@, Resp(status, body))]

\* the catch block of a handler
OnThrow_rethrow(r, body) == [r EXCEPT !.pc = "done", !.caught = TRUE, !.escaped = TRUE]

OnThrow(r, body) == Send([r EXCEPT !.caught = TRUE], 500, body)

ErrBody(message) == [error |-> message]

\* Spec serves one request at a time, which is req (process 0); SpecConcurrent and
\* SpecStartup serve the requests req[1] and req[2] of two clients at the same time
Procs == {1, 2}

Req(p) == IF p = 0 THEN req ELSE req[p]

SetReq(p, r) == IF p = 0 THEN r ELSE [req EXCEPT ![p] = r]

CanStart == req.pc = "done" /\ req.nth < MaxRequests

\* process p receives the request
Starts(p, handler, input) ==
    IF p = 0 THEN CanStart ELSE req[p] = NewReq(handler, input)

Received(p, handler, input) ==
    IF p = 0 THEN [NewReq(handler, input) EXCEPT !.nth = req.nth + 1] ELSE req[p]

At(p, handler, pc) == Req(p).handler = handler /\ Req(p).pc = pc

Count(oks, b) == Len(SelectSeq(oks, LAMBDA x : x = b))

(***************************************************************************)
(* The responses of the three handlers that process emails in a loop       *)
(***************************************************************************)
ImportBody(ok, inserted, message) == [ok |-> ok, inserted |-> inserted, message |-> message]

ImportResult(r, connected) ==
    [ok |-> TRUE, inserted |-> Len(r.queue), classified |-> r.classified,
     eventsExtracted |-> r.eventsExtracted, embedded |-> r.embedded,
     message |-> IF connected THEN "imported" ELSE "importedNoAI"]

ReprocessResult(r) ==
    [ok |-> Count(r.oks, FALSE) = 0, ollamaConnected |-> TRUE,
     processed |-> Count(r.oks, TRUE), failed |-> Count(r.oks, FALSE),
     classified |-> r.classified, eventsExtracted |-> r.eventsExtracted,
     embedded |-> r.embedded, message |-> "reprocessed"]

NothingToProcess ==
    [ok |-> TRUE, processed |-> 0, classified |-> 0, eventsExtracted |-> 0, embedded |-> 0,
     message |-> "nothingToProcess"]

UnprocessedResult(r) ==
    [success |-> TRUE, processed |-> Count(r.oks, TRUE),
     eventsExtracted |-> r.eventsExtracted, message |-> "processed"]

LoopResult(r) ==
    IF r.handler = "import" THEN ImportResult(r, TRUE)
    ELSE IF r.handler = "reprocess" THEN ReprocessResult(r)
    ELSE UnprocessedResult(r)

(***************************************************************************)
(* The loop over the emails of POST /api/import, /api/emails/reprocess and *)
(* /api/process/unprocessed.  The body of the loop is in a try/catch.      *)
(***************************************************************************)
Current(r) == r.queue[r.idx]

\* the first call the iteration for the current email awaits: reprocess classifies
\* only an email that had no classification when the request read the emails
EnterIteration(r) ==
    [r EXCEPT !.pending = <<>>,
              !.pc = IF r.handler = "reprocess" /\ Truthy(Current(r).classification)
                     THEN "getEvents" ELSE "classify"]

\* the end of one iteration, by its last statement (outcome "ok") or by its catch block:
\* outcome is what threw, "storage", "llm" (the summary or the embedding of a chunk)
\* or "other" (a TypeError on an event that is null)
LoopNext_abort(r, outcome) ==
    LET r1 == [r EXCEPT !.oks = Append(@, outcome = "ok"),
                        !.skipped = IF outcome = "ok" THEN @ ELSE @ \cup {outcome},
                        !.pending = <<>>]
    IN IF outcome # "ok" THEN OnThrow(r1, ErrBody("error"))
       ELSE IF r.idx >= Len(r.queue) THEN Send(r1, 200, LoopResult(r1))
       ELSE EnterIteration([r1 EXCEPT !.idx = @ + 1])

LoopNext(r, outcome) ==
    LET r1 == [r EXCEPT !.oks = Append(@, outcome = "ok"),
                        !.skipped = IF outcome = "ok" THEN @ ELSE @ \cup {outcome},
                        !.pending = <<>>]
    IN IF r.idx >= Len(r.queue) THEN Send(r1, 200, LoopResult(r1))
       ELSE EnterIteration([r1 EXCEPT !.idx = @ + 1])

\* the statement after the loop over the extracted events
AfterEvents(r) ==
    [r EXCEPT !.pc = IF r.handler = "import" THEN "saveChunks"
                     ELSE IF r.handler = "reprocess" THEN "getChunks"
                     ELSE "mark"]

\* the loop over the extracted events, up to the addCalendarEvent it awaits next
RECURSIVE NextEvent(_)
NextEvent(r) ==
    IF r.pending = <<>> THEN AfterEvents(r)
    ELSE IF Head(r.pending) = "null" THEN LoopNext(Threw(r, "event"), "other")
    ELSE IF Invalid(Head(r.pending)) THEN NextEvent([r EXCEPT !.pending = Tail(@)])
    ELSE [r EXCEPT !.pc = "addEvent"]

\* classifyEmail and updateEmailClassification
ClassifyUpdate(p, raw, env) ==
    LET r == Req(p)
        cls == classifyEmail(raw)
    IN /\ r.pc = "classify"
       /\ UNCHANGED <<area, mode, call, calendarEvents, ragChunks, importLogs, chatTables>>
       /\ IF env = "fails"
          THEN /\ req' = SetReq(p, LoopNext(Threw(r, "updateEmailClassification"), "storage"))
               /\ UNCHANGED emails
          ELSE /\ emails' = updateEmailClassification(emails, Current(r).id, cls.classification,
                                                      cls.confidence)
               /\ req' = SetReq(p, [r EXCEPT !.classified = @ + 1,
                                             !.pc = IF r.handler = "reprocess" THEN "getEvents"
                                                    ELSE "extract"])

\* getCalendarEventsByEmailId of reprocess and the test of its result
GetEvents(p, env) ==
    LET r == Req(p)
        existingEvents == getCalendarEventsByEmailId(calendarEvents, Current(r).id)
    IN /\ r.handler = "reprocess" /\ r.pc = "getEvents"
       /\ UNCHANGED <<area, mode, call, store>>
       /\ req' = SetReq(p, IF env = "fails" THEN LoopNext(Threw(r, "getCalendarEventsByEmailId"), "storage")
                           ELSE IF Len(existingEvents) = 0 THEN [r EXCEPT !.pc = "extract"]
                           ELSE [r EXCEPT !.pc = "getChunks"])

\* extractEventsFromEmail
ExtractEvents(p, evs) ==
    LET r == Req(p)
    IN /\ r.pc = "extract"
       /\ UNCHANGED <<area, mode, call, store>>
       /\ req' = SetReq(p, NextEvent([r EXCEPT !.pending = evs]))

\* addCalendarEvent for one event, in its own try/catch
AddEvent(p) ==
    LET r == Req(p)
        rest == [r EXCEPT !.pending = Tail(@)]
    IN /\ r.pc = "addEvent"
       /\ UNCHANGED <<area, mode, call, emails, ragChunks, importLogs, chatTables>>
       /\ IF Head(r.pending) = "addFails"
          THEN /\ req' = SetReq(p, NextEvent(Threw(rest, "addCalendarEvent")))
               /\ UNCHANGED calendarEvents
          ELSE /\ calendarEvents' = addCalendarEvent(calendarEvents, Current(r).id,
                                                     TitleOf(Head(r.pending)))
               /\ req' = SetReq(p, NextEvent([rest EXCEPT !.eventsExtracted = @ + 1,
                                                          !.trace = Append(@, Current(r).id)]))

\* getRagChunksByEmailId of reprocess and the test of its result
GetChunks(p, env) ==
    LET r == Req(p)
        existingChunks == getRagChunksByEmailId(ragChunks, Current(r).id)
    IN /\ r.handler = "reprocess" /\ r.pc = "getChunks"
       /\ UNCHANGED <<area, mode, call, store>>
       /\ req' = SetReq(p, IF env = "fails" THEN LoopNext(Threw(r, "getRagChunksByEmailId"), "storage")
                           ELSE IF Len(existingChunks) = 0 THEN [r EXCEPT !.pc = "saveChunks"]
                           ELSE [r EXCEPT !.pc = "mark"])

\* generateEmailChunks, which returns n chunks, and saveRagChunks when n > 0
SaveChunks(p, n, env) ==
    LET r == Req(p)
    IN /\ r.pc = "saveChunks"
       /\ UNCHANGED <<area, mode, call, emails, calendarEvents, importLogs, chatTables>>
       /\ IF env = "generateFails"
          THEN /\ n = 0
               /\ req' = SetReq(p, LoopNext(Threw(r, "generateEmailChunks"), "llm"))
               /\ UNCHANGED ragChunks
          ELSE IF env = "saveFails"
          THEN /\ n > 0
               /\ req' = SetReq(p, LoopNext(Threw(r, "saveRagChunks"), "storage"))
               /\ UNCHANGED ragChunks
          ELSE /\ ragChunks' = IF n > 0 THEN saveRagChunks(ragChunks, Current(r).id, n)
                               ELSE ragChunks
               /\ req' = SetReq(p, [r EXCEPT !.pc = "mark", !.embedded = @ + n])

MarkProcessed(p, env) ==
    LET r == Req(p)
    IN /\ r.pc = "mark"
       /\ UNCHANGED <<area, mode, call, calendarEvents, ragChunks, importLogs, chatTables>>
       /\ IF env = "fails"
          THEN /\ req' = SetReq(p, LoopNext(Threw(r, "markEmailProcessed"), "storage"))
               /\ UNCHANGED emails
          ELSE /\ emails' = markEmailProcessed(emails, Current(r).id)
               /\ req' = SetReq(p, LoopNext(r, "ok"))

(***************************************************************************)
(* POST /api/import                                                        *)
(***************************************************************************)
\* the parsing part of POST /api/import: the emails to import, or the 400 it answers
ImportParse(file) ==
    IF file.present
    THEN LET ext == ExtOf(file.name)
         IN IF ext = Json THEN [reject |-> "none", emails |-> file.emails]
            ELSE IF ext = Pst
                 THEN IF file.errors > 0 /\ Len(file.emails) = 0
                      THEN [reject |-> "pstError", emails |-> <<>>]
                      ELSE [reject |-> "none", emails |-> file.emails]
            ELSE IF ext = Mbox THEN [reject |-> "mbox", emails |-> <<>>]
            ELSE [reject |-> "unsupported", emails |-> <<>>]
    ELSE [reject |-> "none", emails |-> generateSampleEmails]

\* the parsing, the two tests of its result, and insertEmailsAndGetIds; MaxEmails
\* bounds the emails of uploaded files, a request without a file always inserts the
\* sample emails
ImportInsert(p, file, env) ==
    LET parsed == ImportParse(file)
        n == Len(parsed.emails)
        r0 == Received(p, "import", file)
        inserted == insertEmailsAndGetIds(emails, parsed.emails)
    IN /\ Starts(p, "import", file)
       /\ file.present => Len(emails) + n <= MaxEmails
       /\ UNCHANGED <<area, mode, call, calendarEvents, ragChunks, importLogs, chatTables>>
       /\ IF parsed.reject # "none"
          THEN /\ req' = SetReq(p, Send(r0, 400, ImportBody(FALSE, 0, parsed.reject)))
               /\ UNCHANGED emails
          ELSE IF n = 0
          THEN /\ req' = SetReq(p, Send(r0, 400, ImportBody(FALSE, 0, "noEmails")))
               /\ UNCHANGED emails
          ELSE IF env = "fails"
          THEN /\ req' = SetReq(p, OnThrow(Threw(r0, "insertEmailsAndGetIds"), ImportBody(FALSE, 0, "error")))
               /\ UNCHANGED emails
          ELSE /\ emails' = inserted
               /\ req' = SetReq(p, [r0 EXCEPT !.pc = "log",
                                              !.queue = SubSeq(inserted, Len(emails) + 1,
                                                               Len(inserted))])

ImportLog(p, env) ==
    LET r == Req(p)
        filename == IF r.input.present THEN r.input.name ELSE <<"sample_demo_data">>
    IN /\ r.handler = "import" /\ r.pc = "log"
       /\ UNCHANGED <<area, mode, call, emails, calendarEvents, ragChunks, chatTables>>
       /\ IF env = "fails"
          THEN /\ req' = SetReq(p, OnThrow(Threw(r, "logImport"), ImportBody(FALSE, 0, "error")))
               /\ UNCHANGED importLogs
          ELSE /\ importLogs' = logImport(importLogs, filename, Len(r.queue))
               /\ req' = SetReq(p, [r EXCEPT !.pc = "check"])

\* checkOllamaConnection and the test of its result
ImportCheck(p, ollamaConnected) ==
    LET r == [Req(p) EXCEPT !.connected = ollamaConnected]
    IN /\ Req(p).handler = "import" /\ Req(p).pc = "check"
       /\ UNCHANGED <<area, mode, call, store>>
       /\ req' = SetReq(p, IF ollamaConnected THEN EnterIteration(r)
                           ELSE Send(r, 200, ImportResult(r, FALSE)))

(***************************************************************************)
(* POST /api/emails/reprocess and POST /api/process/unprocessed            *)
(***************************************************************************)
\* the filter that selects the emails to reprocess
NeedsReprocess(e) == ~Truthy(e.classification) \/ ~Truthy(e.isProcessed)

\* checkOllamaConnection, then getAllEmails and the filter
ReprocessStart(p, env) ==
    LET r0 == Received(p, "reprocess", NULL)
        unprocessedEmails == SelectSeq(getAllEmails(emails, ALL_EMAILS_LIMIT), NeedsReprocess)
    IN /\ Starts(p, "reprocess", NULL)
       /\ UNCHANGED <<area, mode, call, store>>
       /\ req' = SetReq(p,
                    IF env = "notConnected"
                      THEN Send(r0, 503, [error |-> "noOllama", ollamaConnected |-> FALSE])
                    ELSE IF env = "getAllFails"
                         THEN OnThrow(Threw([r0 EXCEPT !.connected = TRUE], "getAllEmails"), ErrBody("error"))
                    ELSE IF Len(unprocessedEmails) = 0
                         THEN Send([r0 EXCEPT !.connected = TRUE], 200, NothingToProcess)
                    ELSE EnterIteration([r0 EXCEPT !.connected = TRUE,
                                                   !.queue = unprocessedEmails]))

\* checkOllamaConnection, then getUnprocessedEmails
UnprocessedStart(p, env) ==
    LET r0 == Received(p, "processUnprocessed", NULL)
        unprocessed == getUnprocessedEmails(emails)
        r1 == [r0 EXCEPT !.connected = TRUE, !.queue = unprocessed]
    IN /\ Starts(p, "processUnprocessed", NULL)
       /\ UNCHANGED <<area, mode, call, store>>
       /\ req' = SetReq(p,
                    IF env = "notConnected" THEN Send(r0, 503, ErrBody("noOllama"))
                    ELSE IF env = "getFails"
                         THEN OnThrow(Threw([r0 EXCEPT !.connected = TRUE], "getUnprocessedEmails"), ErrBody("error"))
                    ELSE IF Len(unprocessed) = 0 THEN Send(r1, 200, UnprocessedResult(r1))
                    ELSE EnterIteration(r1))

(***************************************************************************)
(* POST /api/events/extract: no validation of an event and no try/catch    *)
(* around addCalendarEvent; an event whose title or start date is          *)
(* undefined fails on the NOT NULL columns, one whose title or start date  *)
(* is the empty string is stored.                                          *)
(***************************************************************************)
EmailIds == {UNDEF} \cup 0..(MaxEmails + 1)

\* the validation, getEmailById and the test of its result
EventsExtract_nocheck(emailId, env) ==
    LET r0 == Received(0, "eventsExtract", emailId)
    IN /\ CanStart
       /\ UNCHANGED <<area, mode, call, store>>
       /\ req' = IF emailId = UNDEF THEN Send(r0, 400, ErrBody("invalid"))
                 ELSE IF env = "getFails" THEN OnThrow(Threw(r0, "getEmailById"), ErrBody("error"))
                 ELSE [r0 EXCEPT !.pc = "extractEvents"]

EventsExtract(emailId, env) ==
    LET r0 == Received(0, "eventsExtract", emailId)
    IN /\ CanStart
       /\ UNCHANGED <<area, mode, call, store>>
       /\ req' = IF emailId = UNDEF THEN Send(r0, 400, ErrBody("invalid"))
                 ELSE IF env = "getFails" THEN OnThrow(Threw(r0, "getEmailById"), ErrBody("error"))
                 ELSE IF getEmailById(emails, emailId) = <<>>
                      THEN Send(r0, 404, ErrBody("notFound"))
                 ELSE [r0 EXCEPT !.pc = "extractEvents"]

\* after an awaited call of the handler: the loop awaits addCalendarEvent for the next
\* event, or the handler answers; reading event.title of a null element throws before
\* addCalendarEvent is called
EventsExtractNext(r) ==
    IF r.pending = <<>> THEN Send(r, 200, [events |-> r.queue, emailId |-> r.input])
    ELSE IF Head(r.pending) = "null" THEN OnThrow(Threw(r, "event"), ErrBody("error"))
    ELSE [r EXCEPT !.pc = "storeEvent"]

\* extractEventsFromEmail
EventsExtractLLM(evs) ==
    /\ At(0, "eventsExtract", "extractEvents")
    /\ UNCHANGED <<area, mode, call, store>>
    /\ req' = EventsExtractNext([req EXCEPT !.queue = evs, !.pending = evs])

\* addCalendarEvent for one event
EventsExtractStore ==
    LET kind == Head(req.pending)
    IN /\ At(0, "eventsExtract", "storeEvent")
       /\ UNCHANGED <<area, mode, call, emails, ragChunks, importLogs, chatTables>>
       /\ IF kind \in {"ok", "emptyTitle", "emptyStart"}
          THEN /\ calendarEvents' = addCalendarEvent(calendarEvents, req.input, TitleOf(kind))
               /\ req' = EventsExtractNext([req EXCEPT !.pending = Tail(@)])
          ELSE /\ req' = OnThrow(Threw(req, "addCalendarEvent"), ErrBody("error"))
               /\ UNCHANGED calendarEvents

(***************************************************************************)
(* POST /api/emails/:id/classify and POST /api/ai/draft-reply              *)
(***************************************************************************)
\* the validation, getEmailById and the test of its result
ClassifyOne(emailId, env) ==
    LET r0 == Received(0, "classify", emailId)
    IN /\ CanStart
       /\ UNCHANGED <<area, mode, call, store>>
       /\ req' = IF emailId = UNDEF THEN Send(r0, 400, ErrBody("invalid"))
                 ELSE IF env = "getFails" THEN OnThrow(Threw(r0, "getEmailById"), ErrBody("error"))
                 ELSE IF getEmailById(emails, emailId) = <<>>
                      THEN Send(r0, 404, ErrBody("notFound"))
                 ELSE [r0 EXCEPT !.pc = "update"]

\* classifyEmail and updateEmailClassification
ClassifyOneUpdate(raw, env) ==
    LET cls == classifyEmail(raw)
    IN /\ At(0, "classify", "update")
       /\ UNCHANGED <<area, mode, call, calendarEvents, ragChunks, importLogs, chatTables>>
       /\ IF env = "updateFails"
          THEN req' = OnThrow(Threw(req, "updateEmailClassification"), ErrBody("error")) /\ UNCHANGED emails
          ELSE /\ emails' = updateEmailClassification(emails, req.input, cls.classification,
                                                      cls.confidence)
               /\ req' = Send(req, 200, [success |-> TRUE,
                                         classification |-> cls.classification,
                                         confidence |-> cls.confidence])

\* the validation, getEmailById and the test of its result
DraftReply(emailId, env) ==
    LET r0 == Received(0, "draftReply", emailId)
    IN /\ CanStart
       /\ UNCHANGED <<area, mode, call, store>>
       /\ req' = IF emailId = UNDEF \/ emailId = 0 THEN Send(r0, 400, ErrBody("needId"))
                 ELSE IF env = "getFails" THEN OnThrow(Threw(r0, "getEmailById"), ErrBody("error"))
                 ELSE IF getEmailById(emails, emailId) = <<>>
                      THEN Send(r0, 404, ErrBody("notFound"))
                 ELSE [r0 EXCEPT !.pc = "draft"]

\* generateDraftReply
DraftReplyLLM(env) ==
    /\ At(0, "draftReply", "draft")
    /\ UNCHANGED <<area, mode, call, store>>
    /\ req' = IF env = "llmFails" THEN OnThrow(Threw(req, "generateDraftReply"), ErrBody("error"))
              ELSE Send(req, 200, [draft |-> "draft", emailId |-> req.input])

(***************************************************************************)
(* The handlers that only read: GET /api/stats, /api/emails, /api/events,  *)
(* /api/emails/classification-stats, /api/ping and /api/ollama/status.     *)
(***************************************************************************)
ReadHandlers == {"stats", "emails", "events", "classificationStats"}

\* the storage call of each
ReadCall(h) ==
    CASE h = "stats" -> "getStats"
      [] h = "events" -> "getCalendarEvents"
      [] OTHER -> "getAllEmails"

ReadOnly(h, env) ==
    /\ CanStart
    /\ UNCHANGED <<area, mode, call, store>>
    /\ req' = IF env = "fails" THEN OnThrow(Threw(Received(0, h, NULL), ReadCall(h)), ErrBody("error"))
              ELSE Send(Received(0, h, NULL), 200, [data |-> h])

\* GET /api/ping: no call and no try/catch
Ping ==
    /\ CanStart
    /\ UNCHANGED <<area, mode, call, store>>
    /\ req' = Send(Received(0, "ping", NULL), 200, [ok |-> TRUE])

\* GET /api/ollama/status: the catch block answers 200 as well, with connected = false.
\* checkOllamaConnection catches what its fetch throws, so env = "fails" stands for a
\* rejection it does not catch.
OllamaStatus(connected, env) ==
    LET r0 == Received(0, "ollamaStatus", NULL)
    IN /\ CanStart
       /\ UNCHANGED <<area, mode, call, store>>
       /\ env = "fails" => ~connected
       /\ req' = IF env = "fails"
                 THEN Send([Threw(r0, "checkOllamaConnection") EXCEPT !.caught = TRUE], 200,
                           [connected |-> FALSE])
                 ELSE Send([r0 EXCEPT !.connected = connected], 200, [connected |-> connected])

(***************************************************************************)
(* POST /api/ai/chat.  Similarities are in percent.                        *)
(***************************************************************************)
VECTOR_MIN_SIM == 50
TOKEN_MISMATCH_SIM == 75

Max(a, b) == IF a >= b THEN a ELSE b

\* the loop over the chunks searchRagChunks returns
RECURSIVE VectorLoop(_, _, _)
VectorLoop(hits, noTokens, acc) ==
    IF hits = <<>> THEN acc
    ELSE LET r == Head(hits)
             hasTokenMatch == noTokens \/ r.tokenMatch
             acc1 == [acc EXCEPT !.maxSimilarity = Max(@, r.similarity)]
         IN VectorLoop(Tail(hits), noTokens,
                IF r.similarity >= VECTOR_MIN_SIM
                THEN IF ~hasTokenMatch /\ r.similarity < TOKEN_MISMATCH_SIM THEN acc1
                     ELSE [acc1 EXCEPT !.vectorResults = Append(@, r)]
                ELSE IF acc1.firstAboveThreshold = <<>> /\ r.similarity >= VECTOR_MIN_SIM
                     THEN [acc1 EXCEPT !.firstAboveThreshold = <<r>>]
                     ELSE acc1)

VectorSearch(hits, noTokens) ==
    LET acc == VectorLoop(hits, noTokens,
                          [vectorResults |-> <<>>, maxSimilarity |-> 0,
                           firstAboveThreshold |-> <<>>])
    IN IF acc.vectorResults = <<>> /\ acc.firstAboveThreshold # <<>>
       THEN [acc EXCEPT !.vectorResults = acc.firstAboveThreshold]
       ELSE acc

needBm25_always(v) == TRUE

needBm25(v) == v.vectorResults = <<>> \/ v.maxSimilarity < VECTOR_MIN_SIM

\* the context items: vector hits first, then BM25 hits, no key twice, three at most.
\* The key of a vector hit is the head of the content of its chunk, the key of a BM25
\* hit is its subject followed by its sender; seen holds the keys of both.
RECURSIVE Merge(_, _, _)
Merge(items, seen, ctx) ==
    IF items = <<>> \/ Len(ctx) >= 3 THEN [seen |-> seen, ctx |-> ctx]
    ELSE IF Head(items).key \in seen THEN Merge(Tail(items), seen, ctx)
    ELSE Merge(Tail(items), seen \cup {Head(items).key}, Append(ctx, Head(items)))

contextItems(vectorResults, bm25Results) ==
    LET v == Merge([i \in DOMAIN vectorResults |->
                       [src |-> "vector", key |-> vectorResults[i].key]], {}, <<>>)
    IN Merge([i \in DOMAIN bm25Results |->
                 [src |-> "bm25", key |-> bm25Results[i].subject \o bm25Results[i].sender]],
             v.seen, v.ctx).ctx

Sims == {40, 60, 80}
Hits == [similarity : Sims, tokenMatch : BOOLEAN, key : {<<"a", "x">>, <<"c">>}]

\* the emails searchEmailsBm25 returns: two of them may have the same subject and sender,
\* and <<"a">> from <<"x">> has the key of <<"a", "x">> from nobody
Bm25Hits ==
    {[subject |-> <<"a">>, sender |-> <<"x">>], [subject |-> <<"a", "x">>, sender |-> <<>>],
     [subject |-> <<"b">>, sender |-> <<"x">>]}
Bm25Seqs == UNION {[1..n -> Bm25Hits] : n \in 0..MaxBm25}

\* the results of searchEmailsBm25 in Spec: one email at most
MainBm25Seqs == {b \in Bm25Seqs : Len(b) <= 1}

\* searchRagChunks returns the chunks by non-increasing similarity
HitSeqs == {h \in UNION {[1..n -> Hits] : n \in 0..MaxHits} :
              \A i \in 1..(Len(h) - 1) : h[i].similarity >= h[i + 1].similarity}

\* the results of searchRagChunks in Spec: one chunk at most
MainHitSeqs == {h \in HitSeqs : Len(h) <= 1}

ChatInputs == [message : {"", " ", "plain", "schedule"}, conversationId : {UNDEF, 0, 1, 7}]

\* normalizeQuestionForRag asks the LLM to rewrite the question, unless the question is
\* blank once its white space is collapsed and trimmed
fallbackNormalized(rawQuestion) == IF rawQuestion = " " THEN "" ELSE rawQuestion

normalizeCallsLLM_never(rawQuestion) == FALSE

normalizeCallsLLM(rawQuestion) == fallbackNormalized(rawQuestion) # ""

\* what a request did: retrieved tells whether it went through retrieval, normalizeCalled
\* and llmCalled whether chatWithOllama was called to normalize the question and to
\* answer it, answer which answer it is about to store
ChatTrace(v, bm25, ctx, llm, norm) ==
    [vectorResults |-> v.vectorResults, maxSimilarity |-> v.maxSimilarity,
     needBm25 |-> needBm25(v), bm25 |-> bm25, context |-> ctx, llmCalled |-> llm,
     normalizeCalled |-> norm, retrieved |-> TRUE, answer |-> NULL]

NoTrace ==
    [ChatTrace([vectorResults |-> <<>>, maxSimilarity |-> 0], 0, <<>>, FALSE, FALSE)
        EXCEPT !.retrieved = FALSE]

ChatBody(response, convId) == [response |-> response, conversationId |-> convId]

\* the conversation of a chat request
ConvId(r) == r.idx

\* the validation, and createConversation when the request names no conversation
ChatStart(in, env) ==
    LET r0 == [Received(0, "aiChat", in) EXCEPT !.trace = <<NoTrace>>]
        create == in.conversationId = UNDEF \/ in.conversationId = 0
        created == createConversation(conversations, in.message)
    IN /\ CanStart
       /\ Len(messages) + 2 <= MaxMessages
       /\ create => Len(conversations) < MaxConversations
       /\ UNCHANGED <<area, mode, call, mailTables, messages, appSettings>>
       /\ IF in.message = ""
          THEN req' = Send(r0, 400, ErrBody("invalid")) /\ UNCHANGED conversations
          ELSE IF ~create
          THEN /\ env = "ok"
               /\ req' = [r0 EXCEPT !.pc = "addUser", !.idx = in.conversationId]
               /\ UNCHANGED conversations
          ELSE IF env = "fails"
          THEN req' = OnThrow(Threw(r0, "createConversation"), ErrBody("error")) /\ UNCHANGED conversations
          ELSE /\ conversations' = created
               /\ req' = [r0 EXCEPT !.pc = "addUser", !.idx = created[Len(created)].id]

\* addMessage of the question.  DatabaseStorage.addMessage awaits its INSERT and then
\* its UPDATE of the conversation, so the handler is suspended between the two;
\* LocalSQLiteStorage.addMessage runs the two statements without yielding.  Neither
\* runs them in a transaction.
ChatAddUser(env) ==
    /\ At(0, "aiChat", "addUser")
    /\ env = "updateFails" => mode = "local"
    /\ UNCHANGED <<area, mode, call, mailTables, appSettings>>
    /\ IF env = "fails"
       THEN req' = OnThrow(Threw(req, "addMessage"), ErrBody("error")) /\ UNCHANGED <<conversations, messages>>
       ELSE /\ messages' = addMessage(messages, ConvId(req), "user", req.input.message)
            /\ IF mode # "local"
               THEN req' = [req EXCEPT !.pc = "touchUser"] /\ UNCHANGED conversations
               ELSE IF env = "updateFails"
               THEN req' = OnThrow(Threw(req, "addMessage"), ErrBody("error")) /\ UNCHANGED conversations
               ELSE /\ conversations' = touchConversation(conversations, ConvId(req))
                    /\ req' = [req EXCEPT !.pc = "normalize"]

\* the UPDATE of DatabaseStorage.addMessage for the question
ChatTouchUser(env) ==
    /\ At(0, "aiChat", "touchUser")
    /\ UNCHANGED <<area, mode, call, mailTables, messages, appSettings>>
    /\ IF env = "fails"
       THEN req' = OnThrow(Threw(req, "addMessage"), ErrBody("error")) /\ UNCHANGED conversations
       ELSE /\ conversations' = touchConversation(conversations, ConvId(req))
            /\ req' = [req EXCEPT !.pc = "normalize"]

\* normalizeQuestionForRag
ChatNormalize(env) ==
    LET norm == normalizeCallsLLM(req.input.message)
        r1 == [req EXCEPT !.trace[1].normalizeCalled = norm]
    IN /\ At(0, "aiChat", "normalize")
       /\ env = "fails" => norm
       /\ UNCHANGED <<area, mode, call, store>>
       /\ req' = IF env = "fails" THEN OnThrow(Threw(r1, "normalizeQuestionForRag"), ErrBody("error"))
                 ELSE [r1 EXCEPT !.pc = IF req.input.message = "schedule" THEN "searchEvents"
                                        ELSE "ragCount"]

\* searchEventsByKeyword of a schedule question, which finds nEvents events
ChatSearchEvents(nEvents, env) ==
    /\ At(0, "aiChat", "searchEvents")
    /\ nEvents <= Len(calendarEvents)
    /\ mode = "local" => nEvents = 0
    /\ UNCHANGED <<area, mode, call, store>>
    /\ req' = IF env = "fails" THEN OnThrow(Threw(req, "searchEventsByKeyword"), ErrBody("error"))
              ELSE IF nEvents > 0
                   THEN [req EXCEPT !.pc = "addAssistant", !.trace[1].answer = "schedule"]
              ELSE [req EXCEPT !.pc = "ragCount"]

\* after the vector search: searchEmailsBm25 when needed, then the context and the
\* test of it; bm25Results are the emails the search returned, none when it did not run
AfterBm25(r, bm25Results) ==
    LET ctx == contextItems(r.trace[1].vectorResults, bm25Results)
        r1 == [r EXCEPT !.trace[1].bm25 = Len(bm25Results), !.trace[1].context = ctx,
                        !.trace[1].retrieved = TRUE]
    IN IF ctx = <<>> THEN [r1 EXCEPT !.pc = "addAssistant", !.trace[1].answer = "noData"]
       ELSE [r1 EXCEPT !.pc = "llm"]

AfterVector(r, v) ==
    LET r1 == [r EXCEPT !.trace[1].vectorResults = v.vectorResults,
                        !.trace[1].maxSimilarity = v.maxSimilarity,
                        !.trace[1].needBm25 = needBm25(v)]
    IN IF needBm25(v) THEN [r1 EXCEPT !.pc = "bm25"] ELSE AfterBm25(r1, <<>>)

\* getRagChunkCount
ChatRagCount(env) ==
    /\ At(0, "aiChat", "ragCount")
    /\ UNCHANGED <<area, mode, call, store>>
    /\ req' = IF env = "fails" THEN OnThrow(Threw(req, "getRagChunkCount"), ErrBody("error"))
              ELSE IF Len(ragChunks) > 0 THEN [req EXCEPT !.pc = "embedding"]
              ELSE AfterVector(req, VectorSearch(<<>>, FALSE))

\* generateEmbedding, which returns null when the embedding fails
ChatEmbedding(queryEmbedding) ==
    /\ At(0, "aiChat", "embedding")
    /\ UNCHANGED <<area, mode, call, store>>
    /\ req' = IF queryEmbedding THEN [req EXCEPT !.pc = "searchRag"]
              ELSE AfterVector(req, VectorSearch(<<>>, FALSE))

\* searchRagChunks, which returns hits, and the loop over them; noTokens tells that the
\* retrieval query has no token of two letters or more
ChatSearchRag(hits, noTokens, env) ==
    /\ At(0, "aiChat", "searchRag")
    /\ Len(hits) <= Len(ragChunks)
    /\ hits = <<>> \/ env = "fails" => ~noTokens
    /\ env = "fails" => hits = <<>>
    /\ UNCHANGED <<area, mode, call, store>>
    /\ req' = IF env = "fails" THEN OnThrow(Threw(req, "searchRagChunks"), ErrBody("error"))
              ELSE AfterVector([req EXCEPT !.queue = hits, !.connected = noTokens],
                               VectorSearch(hits, noTokens))

\* searchEmailsBm25, which returns the emails bm25
ChatBm25(bm25, env) ==
    /\ At(0, "aiChat", "bm25")
    /\ Len(bm25) <= Len(emails)
    /\ env = "fails" => bm25 = <<>>
    /\ UNCHANGED <<area, mode, call, store>>
    /\ req' = IF env = "fails" THEN OnThrow(Threw(req, "searchEmailsBm25"), ErrBody("error"))
              ELSE AfterBm25(req, bm25)

\* chatWithOllama with the context
ChatLLM(env) ==
    LET r1 == [req EXCEPT !.trace[1].llmCalled = TRUE]
    IN /\ At(0, "aiChat", "llm")
       /\ UNCHANGED <<area, mode, call, store>>
       /\ req' = IF env = "fails" THEN OnThrow(Threw(r1, "chatWithOllama"), ErrBody("error"))
                 ELSE [r1 EXCEPT !.pc = "addAssistant", !.trace[1].answer = "formatted"]

\* addMessage of the answer, and the response when the storage runs the two
\* statements without yielding
ChatAddAssistant(env) ==
    LET answer == req.trace[1].answer
    IN /\ At(0, "aiChat", "addAssistant")
       /\ env = "updateFails" => mode = "local"
       /\ UNCHANGED <<area, mode, call, mailTables, appSettings>>
       /\ IF env = "fails"
          THEN req' = OnThrow(Threw(req, "addMessage"), ErrBody("error")) /\ UNCHANGED <<conversations, messages>>
          ELSE /\ messages' = addMessage(messages, ConvId(req), "assistant", answer)
               /\ IF mode # "local"
                  THEN req' = [req EXCEPT !.pc = "touchAssistant"] /\ UNCHANGED conversations
                  ELSE IF env = "updateFails"
                  THEN req' = OnThrow(Threw(req, "addMessage"), ErrBody("error")) /\ UNCHANGED conversations
                  ELSE /\ conversations' = touchConversation(conversations, ConvId(req))
                       /\ req' = Send(req, 200, ChatBody(answer, ConvId(req)))

\* the UPDATE of DatabaseStorage.addMessage for the answer, and the response
ChatTouchAssistant(env) ==
    /\ At(0, "aiChat", "touchAssistant")
    /\ UNCHANGED <<area, mode, call, mailTables, messages, appSettings>>
    /\ IF env = "fails"
       THEN req' = OnThrow(Threw(req, "addMessage"), ErrBody("error")) /\ UNCHANGED conversations
       ELSE /\ conversations' = touchConversation(conversations, ConvId(req))
            /\ req' = Send(req, 200, ChatBody(req.trace[1].answer, ConvId(req)))

\* GET /api/conversations and GET /api/conversations/:id/messages
ConversationsList(env) ==
    /\ CanStart
    /\ UNCHANGED <<area, mode, call, store>>
    /\ req' = IF env = "fails" THEN OnThrow(Threw(Received(0, "conversations", NULL), "getConversations"), ErrBody("error"))
              ELSE Send(Received(0, "conversations", NULL), 200,
                        [data |-> getConversations(conversations)])

MessagesList(id, env) ==
    /\ CanStart
    /\ UNCHANGED <<area, mode, call, store>>
    /\ req' = IF id = UNDEF THEN Send(Received(0, "messages", id), 400, ErrBody("invalid"))
              ELSE IF env = "fails" THEN OnThrow(Threw(Received(0, "messages", id), "getMessages"), ErrBody("error"))
              ELSE Send(Received(0, "messages", id), 200, [data |-> getMessages(messages, id)])

(***************************************************************************)
(* GET and POST /api/settings/storage                                      *)
(***************************************************************************)
SettingsInputs == [mode : {NULL, "local", "postgresql", "sqlite"}, dataDir : {"", "/data"}]

\* db.select(), db.insert() and db.update() of DatabaseStorage on the exported handle
\* when start-up left it null
NullHandle ==
    call.fn = "startup" /\ call.result.storage = "DatabaseStorage" /\ call.result._db = NULL

\* the server started by SpecStartup serves the requests of the processes of Procs
Listening(p) == call.fn = "startup" /\ call.pc = "listening" /\ req[p].pc = "done"

\* POST /api/settings/storage up to the getAppSetting that setAppSetting awaits
SettingsPost(p, in, env) ==
    LET r0 == IF p = 0 THEN Received(0, "settingsPost", in) ELSE NewReq("settingsPost", in)
        valid == /\ Truthy(in.mode) /\ in.mode \in {"local", "postgresql"}
                 /\ in.mode = "local" => Truthy(in.dataDir)
    IN /\ IF p = 0 THEN CanStart ELSE Listening(p)
       /\ UNCHANGED <<area, mode, store>>
       /\ call' = IF valid /\ NullHandle THEN [call EXCEPT !.result.nullUse = TRUE] ELSE call
       /\ req' = SetReq(p,
             IF ~Truthy(in.mode) \/ (in.mode # "local" /\ in.mode # "postgresql")
             THEN Send(r0, 400, ErrBody("invalidMode"))
             ELSE IF in.mode = "local" /\ ~Truthy(in.dataDir)
             THEN Send(r0, 400, ErrBody("needDataDir"))
             ELSE IF NullHandle \/ env = "fails"
             THEN OnThrow(Threw(r0, "getAppSetting"), ErrBody("error"))
             ELSE [r0 EXCEPT !.pc = "write", !.queue = getAppSetting(appSettings)])

\* the UPDATE or the INSERT of setAppSetting, and the response
SettingsWrite(p, env) ==
    LET r == Req(p)
        written == setAppSetting(appSettings, r.queue, r.input)
    IN /\ At(p, "settingsPost", "write")
       /\ UNCHANGED <<area, mode, call, mailTables, conversations, messages>>
       /\ IF env = "fails" \/ written.threw
          THEN req' = SetReq(p, OnThrow(Threw(r, "setAppSetting"), ErrBody("error"))) /\ UNCHANGED appSettings
          ELSE /\ appSettings' = written.rows
               /\ req' = SetReq(p, Send(r, 200, [success |-> TRUE, savedMode |-> r.input.mode,
                                                 savedDataDir |-> r.input.dataDir]))

SettingsGet(env) ==
    /\ CanStart
    /\ UNCHANGED <<area, mode, call, store>>
    /\ req' = IF env = "fails" THEN OnThrow(Threw(Received(0, "settingsGet", NULL), "getAppSetting"), ErrBody("error"))
              ELSE Send(Received(0, "settingsGet", NULL), 200, [saved |-> appSettings])

(***************************************************************************)
(* POST /api/search.  A text is the sequence of its characters.            *)
(***************************************************************************)
RECURSIVE trimStart(_)
trimStart(s) == IF s # <<>> /\ Head(s) = " " THEN trimStart(Tail(s)) ELSE s

RECURSIVE trimEnd(_)
trimEnd(s) == IF s # <<>> /\ s[Len(s)] = " " THEN trimEnd(SubSeq(s, 1, Len(s) - 1)) ELSE s

trim(s) == trimEnd(trimStart(s))

\* v || ""
OrEmpty(v) == IF v = NoText THEN <<>> ELSE v

\* split(/\s+/) and the filter that drops the empty pieces
RECURSIVE split(_, _, _)
split(s, cur, acc) ==
    IF s = <<>> THEN (IF cur = <<>> THEN acc ELSE Append(acc, cur))
    ELSE IF Head(s) = " "
         THEN split(Tail(s), <<>>, IF cur = <<>> THEN acc ELSE Append(acc, cur))
         ELSE split(Tail(s), Append(cur, Head(s)), acc)

tokenize(query) == split(trim(OrEmpty(query)), <<>>, <<>>)

\* the number of matches of a global regular expression made of plain characters
RECURSIVE countMatches(_, _)
countMatches(text, token) ==
    IF Len(text) < Len(token) THEN 0
    ELSE IF SubSeq(text, 1, Len(token)) = token
         THEN 1 + countMatches(SubSeq(text, Len(token) + 1, Len(text)), token)
         ELSE countMatches(Tail(text), token)

RECURSIVE scoreTokens(_, _)
scoreTokens(lower, tokens) ==
    IF tokens = <<>> THEN 0
    ELSE countMatches(lower, toLowerCase(Head(tokens))) + scoreTokens(lower, Tail(tokens))

scoreText(text, tokens) ==
    IF text = <<>> \/ tokens = <<>> THEN 0 ELSE scoreTokens(toLowerCase(text), tokens)

\* field LIKE '%pattern%' and ilike(field, '%pattern%'), on texts without wildcards
Like(text, pattern) ==
    \E i \in 1..(Len(text) - Len(pattern) + 1) :
        SubSeq(toLowerCase(text), i, i + Len(pattern) - 1) = toLowerCase(pattern)

Ord(c) ==
    CASE c = " " -> 0 [] c = "1" -> 1 [] c = "2" -> 2 [] c = "3" -> 3 [] c = "A" -> 4
      [] c = "a" -> 5 [] c = "b" -> 6 [] c = "x" -> 7 [] c = "y" -> 8 [] OTHER -> 9

\* a <= b, comparing texts as SQLite compares them
RECURSIVE LexLeq(_, _)
LexLeq(a, b) ==
    IF a = <<>> THEN TRUE
    ELSE IF b = <<>> THEN FALSE
    ELSE IF Ord(Head(a)) # Ord(Head(b)) THEN Ord(Head(a)) < Ord(Head(b))
    ELSE LexLeq(Tail(a), Tail(b))

Digits == <<"0", "1", "2", "3", "4", "5", "6", "7", "8", "9">>
String(n) == <<Digits[n + 1]>>

\* the subject shown for an email that has none
NoSubject == <<"(", "-", ")">>

Citation(email, score) ==
    [mailId |-> String(email.id),
     subject |-> IF email.subject = <<>> THEN NoSubject ELSE email.subject,
     score |-> score]

\* Array.prototype.sort with (a, b) => b.score - a.score: stable, highest score first
RECURSIVE insertByScore(_, _)
insertByScore(sorted, c) ==
    IF sorted = <<>> THEN <<c>>
    ELSE IF Head(sorted).score >= c.score THEN <<Head(sorted)>> \o insertByScore(Tail(sorted), c)
    ELSE <<c>> \o sorted

RECURSIVE sortByScore(_)
sortByScore(cs) ==
    IF cs = <<>> THEN <<>>
    ELSE insertByScore(sortByScore(SubSeq(cs, 1, Len(cs) - 1)), cs[Len(cs)])

slice_all(sq, n) == sq

slice(sq, n) == SubSeq(sq, 1, IF Len(sq) < n THEN Len(sq) ELSE n)

DB_LIMIT == 100
LOCAL_LIMIT == 200

\* DatabaseStorage.searchEmails
searchEmailsDatabase(tbl, query, topK) ==
    LET tokens == tokenize(query)
        results == slice(SelectSeq(tbl, LAMBDA e : \/ Like(e.subject, query)
                                                  \/ Like(e.body, query)
                                                  \/ Like(e.sender, query)
                                                  \/ Like(e.date, query)), DB_LIMIT)
        scored == [i \in DOMAIN results |->
                      Citation(results[i],
                               scoreText(results[i].subject \o <<" ">> \o results[i].body, tokens))]
    IN IF tokens = <<>> THEN <<>>
       ELSE slice(sortByScore(SelectSeq(scored, LAMBDA r : r.score > 0)), Max(1, topK))

NoFilters == <<>>

FilterValue(filters, field) == IF filters = <<>> THEN NoText ELSE filters[1][field]

Supplied(v) == v # NoText /\ trim(v) # <<>>

\* LocalSQLiteStorage.searchEmails; filters is the optional third argument
searchEmailsLocal(tbl, query, topK, filters) ==
    LET f(field) == FilterValue(filters, field)
        combinedText == query \o <<" ">> \o OrEmpty(f("sender")) \o <<" ">>
                        \o OrEmpty(f("subject")) \o <<" ">> \o OrEmpty(f("body")) \o <<" ">>
                        \o OrEmpty(f("startDate")) \o <<" ">> \o OrEmpty(f("endDate"))
        tokens == tokenize(combinedText)
        or == filters # <<>> /\ filters[1].operator = "or"
        clauses(e) ==
            (IF trim(query) # <<>>
             THEN <<\/ Like(e.subject, trim(query)) \/ Like(e.body, trim(query))
                    \/ Like(e.sender, trim(query)) \/ Like(e.date, trim(query))>>
             ELSE <<>>)
            \o (IF Supplied(f("sender")) THEN <<Like(e.sender, trim(f("sender")))>> ELSE <<>>)
            \o (IF Supplied(f("subject")) THEN <<Like(e.subject, trim(f("subject")))>> ELSE <<>>)
            \o (IF Supplied(f("body")) THEN <<Like(e.body, trim(f("body")))>> ELSE <<>>)
            \o (IF Supplied(f("startDate")) THEN <<LexLeq(trim(f("startDate")), e.date)>> ELSE <<>>)
            \o (IF Supplied(f("endDate")) THEN <<LexLeq(e.date, trim(f("endDate")))>> ELSE <<>>)
        where(e) == IF or /\ clauses(e) # <<>>
                    THEN \E i \in DOMAIN clauses(e) : clauses(e)[i]
                    ELSE \A i \in DOMAIN clauses(e) : clauses(e)[i]
        rows == slice(SelectSeq(tbl, where), LOCAL_LIMIT)
        scored == [i \in DOMAIN rows |->
                      Citation(rows[i],
                               scoreText(rows[i].subject \o <<" ">> \o rows[i].body \o <<" ">>
                                         \o rows[i].sender \o <<" ">> \o rows[i].date, tokens))]
    IN IF tokens = <<>> THEN <<>>
       ELSE slice(sortByScore(SelectSeq(scored, LAMBDA r : r.score > 0)), Max(1, topK))

\* chatRequestSchema.safeParse: the parsed data and the issues
TOPK_DEFAULT == 10
TOPK_MIN == 1
TOPK_MAX == 50

chatRequestSchema(body) ==
    LET message == OrEmpty(body.message)
        topK == IF body.topK = UNDEF THEN TOPK_DEFAULT ELSE body.topK
        hasMessage == Len(trim(message)) > 0
        \* the schema of the filters has no key date, so f.date is undefined
        hasFilter == /\ body.filters # <<>>
                     /\ \E v \in {body.filters[1].sender, body.filters[1].subject,
                                  body.filters[1].body, NoText} : Len(trim(OrEmpty(v))) > 0
        issues == (IF topK < TOPK_MIN THEN <<"too_small">> ELSE <<>>)
                  \o (IF topK > TOPK_MAX THEN <<"too_big">> ELSE <<>>)
                  \o (IF ~hasMessage /\ ~hasFilter THEN <<"enterTermOrFilter">> ELSE <<>>)
    IN [success |-> issues = <<>>, issues |-> issues,
        data |-> [message |-> message, topK |-> topK, filters |-> body.filters]]

\* the handler for the request r: the validation, storage.searchEmails and the response
SearchResponse(r, env) ==
    LET validationResult == chatRequestSchema(r.input)
        message == validationResult.data.message
        topK == validationResult.data.topK
        citations == IF mode = "local"
                     THEN searchEmailsLocal(emails, trim(message), topK, NoFilters)
                     ELSE searchEmailsDatabase(emails, trim(message), topK)
    IN IF ~validationResult.success
       THEN Send(r, 400, [error |-> validationResult.issues])
       ELSE IF env = "searchFails" THEN OnThrow(Threw(r, "searchEmails"), ErrBody("error"))
       ELSE Send(r, 200, [citations |-> citations, topK |-> topK,
                          hitsCount |-> Len(citations)])

\* POST /api/search for the request that SpecSearch starts with
Search(env) ==
    /\ req.handler = "search" /\ req.pc = "start"
    /\ UNCHANGED <<area, mode, call, store>>
    /\ req' = SearchResponse(req, env)

\* POST /api/search among the requests that Spec serves
SearchPost(in, env) ==
    /\ CanStart
    /\ UNCHANGED <<area, mode, call, store>>
    /\ req' = SearchResponse(Received(0, "search", in), env)

SearchTexts == {NoText, <<" ">>}
SearchFilters ==
    [sender : SearchTexts \cup {<<"y">>}, subject : {NoText, <<"b">>}, body : {NoText, <<"b">>},
     startDate : SearchTexts \cup {<<"2">>}, endDate : {NoText, <<"2">>},
     operator : {NULL, "and", "or"}]

SearchRequests ==
    [message : SearchTexts \cup {<<>>, <<"a">>, <<" ", "A">>, <<"b", " ", "a">>},
     topK : {UNDEF, 0, 1, 51},
     filters : {<<>>} \cup {<<f>> : f \in SearchFilters}]

\* the search requests of Spec: a blank message, a term the subject of the emails of
\* Spec has, topK in and out of its range, and a filter on the sender
MainSearchRequests ==
    [message : {NoText, <<" ">>, <<"a">>},
     topK : {UNDEF, 0, 1},
     filters : {<<>>, <<[sender |-> <<"x">>, subject |-> NoText, body |-> NoText,
                        startDate |-> NoText, endDate |-> NoText, operator |-> NULL]>>}]

SearchStore ==
    insertEmailsAndGetIds(<<>>,
        <<MainEmail,
          [subject |-> <<"A", "a">>, sender |-> <<"y">>, date |-> <<"3">>, body |-> <<"a", " ", "b">>],
          [subject |-> <<"b">>, sender |-> <<"a">>, date |-> <<"2">>, body |-> <<"b">>]>>)

\* one email without subject
UntitledStore ==
    insertEmailsAndGetIds(<<>>,
        <<[subject |-> <<>>, sender |-> <<"a">>, date |-> <<"2">>, body |-> <<"a">>]>>)

InitSearch ==
    /\ area = "search"
    /\ mode \in {"postgresql", "local"}
    /\ emails \in {SearchStore, SubSeq(SearchStore, 1, 1), UntitledStore}
    /\ calendarEvents = <<>> /\ ragChunks = <<>> /\ importLogs = <<>>
    /\ conversations = <<>> /\ messages = <<>> /\ appSettings = <<>>
    /\ req \in {NewReq("search", in) : in \in SearchRequests}
    /\ call = NoCall

NextSearch == \E env \in {"ok", "searchFails"} : Search(env)

SpecSearch == InitSearch /\ [][NextSearch]_vars

(***************************************************************************)
(* The specification.  The mail handlers and the chat handlers write       *)
(* disjoint tables, and the chat handlers read the mail tables only        *)
(* through searches whose results are inputs here, so a behaviour serves   *)
(* the requests of one group: the mail group from the empty database or    *)
(* after an earlier import, the chat group from an empty or a populated    *)
(* one, with searches that return one result at most (SpecChat below has   *)
(* the longer results).  In the area "mail" every import uploads a file,   *)
(* of MaxBatch emails at most; in the area "sample" every import comes     *)
(* without a file and inserts the NSampleEmails sample emails.             *)
(***************************************************************************)
ProcessedEmail(id) ==
    [NewEmail(id, MainEmail, 1) EXCEPT !.classification = "meeting",
                                       !.classificationConfidence = "medium",
                                       !.isProcessed = "true"]

PopulatedEmails == [i \in 1..2 |-> ProcessedEmail(i)]
PopulatedEvents == <<[emailId |-> 1, title |-> "title", createdAt |-> 1]>>
PopulatedChunks == <<[emailId |-> 1, chunkIndex |-> 0], [emailId |-> 2, chunkIndex |-> 0]>>
PopulatedLogs == <<[filename |-> JsonName, emailsImported |-> 2]>>

\* one email imported while the AI server was unreachable, and the event that
\* POST /api/events/extract stored for it
EarlierEmails == insertEmailsAndGetIds(<<>>, <<MainEmail>>)
EarlierEvents == addCalendarEvent(<<>>, 1, "title")
EarlierLogs == logImport(<<>>, JsonName, 1)

Init ==
    /\ area \in {"mail", "sample", "chat", "settings"}
    /\ mode \in {"postgresql"} \cup (IF area = "chat" THEN {"local"} ELSE {})
    /\ \/ /\ emails = <<>>
          /\ calendarEvents = <<>>
          /\ ragChunks = <<>>
          /\ importLogs = <<>>
       \/ /\ area = "mail"
          /\ emails = EarlierEmails
          /\ calendarEvents \in {<<>>, EarlierEvents}
          /\ ragChunks = <<>>
          /\ importLogs = EarlierLogs
       \/ /\ area = "chat"
          /\ emails = PopulatedEmails
          /\ calendarEvents = PopulatedEvents
          /\ ragChunks = PopulatedChunks
          /\ importLogs = PopulatedLogs
    /\ conversations = <<>>
    /\ messages = <<>>
    /\ appSettings = <<>>
    /\ req = Idle
    /\ call = NoCall

Outcomes == {"ok", "fails"}

\* the outcomes of addMessage where it runs its two statements without yielding
AddMessageOutcomes == Outcomes \cup {"updateFails"}

\* the areas whose requests import and process emails
MailAreas == {"mail", "sample"}

\* A loop over more than MaxBatch emails meets every outcome of the environment while
\* it processes its first MaxVaried emails; for the later emails every call succeeds,
\* the extraction finds one event and the email gives MaxChunks chunks.
MaxVaried == 1

Varied == Len(req.queue) <= MaxBatch \/ req.idx <= MaxVaried

LoopOutcomes(all) == IF Varied THEN all ELSE {"ok"}
LoopEvents == IF Varied THEN EventSeqs ELSE {<<"ok">>}
LoopChunks == IF Varied THEN 0..MaxChunks ELSE {MaxChunks}

Next ==
    \/ area = "mail"
          /\ \E file \in Files \ {NoFile}, env \in Outcomes : ImportInsert(0, file, env)
    \/ area = "sample" /\ \E env \in Outcomes : ImportInsert(0, NoFile, env)
    \/ area \in MailAreas /\ \E env \in Outcomes : ImportLog(0, env)
    \/ area \in MailAreas /\ \E ollamaConnected \in BOOLEAN : ImportCheck(0, ollamaConnected)
    \/ area \in MailAreas
          /\ \E env \in {"notConnected", "getAllFails", "connected"} : ReprocessStart(0, env)
    \/ area \in MailAreas
          /\ \E env \in {"notConnected", "getFails", "connected"} : UnprocessedStart(0, env)
    \/ area \in MailAreas
          /\ \E raw \in MainLLMOutputs, env \in LoopOutcomes(Outcomes) :
                 ClassifyUpdate(0, raw, env)
    \/ area \in MailAreas /\ \E env \in LoopOutcomes(Outcomes) : GetEvents(0, env)
    \/ area \in MailAreas /\ \E evs \in LoopEvents : ExtractEvents(0, evs)
    \/ area \in MailAreas /\ AddEvent(0)
    \/ area \in MailAreas /\ \E env \in LoopOutcomes(Outcomes) : GetChunks(0, env)
    \/ area \in MailAreas
          /\ \E n \in LoopChunks, env \in LoopOutcomes({"ok", "generateFails", "saveFails"}) :
                 SaveChunks(0, n, env)
    \/ area \in MailAreas /\ \E env \in LoopOutcomes(Outcomes) : MarkProcessed(0, env)
    \/ area \in MailAreas
          /\ \E id \in EmailIds, env \in {"ok", "getFails"} : EventsExtract(id, env)
    \/ area \in MailAreas /\ \E evs \in EventSeqs : EventsExtractLLM(evs)
    \/ area \in MailAreas /\ EventsExtractStore
    \/ area = "mail" /\ \E id \in EmailIds, env \in {"ok", "getFails"} : ClassifyOne(id, env)
    \/ area = "mail"
          /\ \E raw \in MainLLMOutputs, env \in {"ok", "updateFails"} : ClassifyOneUpdate(raw, env)
    \/ area = "mail" /\ \E id \in EmailIds, env \in {"ok", "getFails"} : DraftReply(id, env)
    \/ area = "mail" /\ \E env \in {"ok", "llmFails"} : DraftReplyLLM(env)
    \/ area = "mail" /\ \E h \in ReadHandlers, env \in Outcomes : ReadOnly(h, env)
    \/ area = "mail" /\ Ping
    \/ area = "mail"
          /\ \E connected \in BOOLEAN, env \in Outcomes : OllamaStatus(connected, env)
    \/ area = "mail"
          /\ \E in \in MainSearchRequests, env \in {"ok", "searchFails"} : SearchPost(in, env)
    \/ area = "chat" /\ \E in \in ChatInputs, env \in Outcomes : ChatStart(in, env)
    \/ area = "chat" /\ \E env \in AddMessageOutcomes : ChatAddUser(env)
    \/ area = "chat" /\ \E env \in Outcomes : ChatTouchUser(env)
    \/ area = "chat" /\ \E env \in Outcomes : ChatNormalize(env)
    \/ area = "chat" /\ \E nEvents \in 0..1, env \in Outcomes : ChatSearchEvents(nEvents, env)
    \/ area = "chat" /\ \E env \in Outcomes : ChatRagCount(env)
    \/ area = "chat" /\ \E queryEmbedding \in BOOLEAN : ChatEmbedding(queryEmbedding)
    \/ area = "chat"
          /\ \E hits \in MainHitSeqs, noTokens \in BOOLEAN, env \in Outcomes :
                 ChatSearchRag(hits, noTokens, env)
    \/ area = "chat" /\ \E bm25 \in MainBm25Seqs, env \in Outcomes : ChatBm25(bm25, env)
    \/ area = "chat" /\ \E env \in Outcomes : ChatLLM(env)
    \/ area = "chat" /\ \E env \in AddMessageOutcomes : ChatAddAssistant(env)
    \/ area = "chat" /\ \E env \in Outcomes : ChatTouchAssistant(env)
    \/ area = "chat" /\ \E env \in Outcomes : ConversationsList(env)
    \/ area = "chat" /\ \E id \in {UNDEF, 1, 7}, env \in Outcomes : MessagesList(id, env)
    \/ area = "settings" /\ \E in \in SettingsInputs, env \in Outcomes : SettingsPost(0, in, env)
    \/ area = "settings" /\ \E env \in Outcomes : SettingsWrite(0, env)
    \/ area = "settings" /\ \E env \in Outcomes : SettingsGet(env)

Spec == Init /\ [][Next]_vars

(***************************************************************************)
(* The chat handlers on every result of the two searches of                *)
(* POST /api/ai/chat: up to MaxHits chunks and up to MaxBm25 emails.       *)
(***************************************************************************)
InitChat == Init /\ area = "chat"

NextChat ==
    \/ \E in \in ChatInputs, env \in Outcomes : ChatStart(in, env)
    \/ \E env \in AddMessageOutcomes : ChatAddUser(env)
    \/ \E env \in Outcomes : ChatTouchUser(env)
    \/ \E env \in Outcomes : ChatNormalize(env)
    \/ \E nEvents \in 0..1, env \in Outcomes : ChatSearchEvents(nEvents, env)
    \/ \E env \in Outcomes : ChatRagCount(env)
    \/ \E queryEmbedding \in BOOLEAN : ChatEmbedding(queryEmbedding)
    \/ \E hits \in HitSeqs, noTokens \in BOOLEAN, env \in Outcomes :
           ChatSearchRag(hits, noTokens, env)
    \/ \E bm25 \in Bm25Seqs, env \in Outcomes : ChatBm25(bm25, env)
    \/ \E env \in Outcomes : ChatLLM(env)
    \/ \E env \in AddMessageOutcomes : ChatAddAssistant(env)
    \/ \E env \in Outcomes : ChatTouchAssistant(env)
    \/ \E env \in Outcomes : ConversationsList(env)
    \/ \E id \in {UNDEF, 1, 7}, env \in Outcomes : MessagesList(id, env)

SpecChat == InitChat /\ [][NextChat]_vars

(***************************************************************************)
(* classifyEmail on every LLM output                                       *)
(***************************************************************************)
InitClassify ==
    /\ area = "classifyEmail"
    /\ mode = "postgresql"
    /\ emails = <<>> /\ calendarEvents = <<>> /\ ragChunks = <<>> /\ importLogs = <<>>
    /\ conversations = <<>> /\ messages = <<>> /\ appSettings = <<>>
    /\ req = Idle
    /\ call \in {ClassifyCall(raw) : raw \in LLMOutputs}

NextClassify == ClassifyReturn

SpecClassify == InitClassify /\ [][NextClassify]_vars

(***************************************************************************)
(* GET /api/emails/classification-stats and GET /api/emails on every       *)
(* small table of emails.                                                  *)
(***************************************************************************)
MaxStatsEmails == 3

Categories == {"task", "meeting", "approval", "notice", "unclassified"}

\* the if-chain of the statistics: the counter an email is counted under
statsCategory(email) ==
    IF email.classification = "task" THEN "task"
    ELSE IF email.classification = "meeting" THEN "meeting"
    ELSE IF email.classification = "approval" THEN "approval"
    ELSE IF email.classification = "notice" THEN "notice"
    ELSE "unclassified"

classificationStats(all) ==
    [c \in Categories \cup {"total"} |->
        IF c = "total" THEN Len(all)
        ELSE Len(SelectSeq(all, LAMBDA e : statsCategory(e) = c))]

ClassificationStats(env) ==
    /\ req.handler = "classificationStats" /\ req.pc = "start"
    /\ UNCHANGED <<area, mode, call, store>>
    /\ req' = IF env = "fails" THEN OnThrow(Threw(req, "getAllEmails"), ErrBody("error"))
              ELSE Send(req, 200, classificationStats(getAllEmails(emails, ALL_EMAILS_LIMIT)))

\* parseInt(req.query.limit) || 100
ParseLimit(limit) == IF limit = UNDEF \/ limit = 0 THEN EMAILS_DEFAULT_LIMIT ELSE limit

EmailsList(env) ==
    LET limit == ParseLimit(req.input.limit)
        classification == req.input.classification
        allEmails == getAllEmails(emails, limit)
    IN /\ req.handler = "emails" /\ req.pc = "start"
       /\ UNCHANGED <<area, mode, call, store>>
       /\ req' = IF env = "fails" THEN OnThrow(Threw(req, "getAllEmails"), ErrBody("error"))
                 ELSE IF Truthy(classification) /\ classification # "all"
                 THEN Send(req, 200, SelectSeq(allEmails,
                                               LAMBDA e : e.classification = classification))
                 ELSE Send(req, 200, allEmails)

Classified(id, classification, createdAt) ==
    IF classification = NULL THEN NewEmail(id, MainEmail, createdAt)
    ELSE [NewEmail(id, MainEmail, createdAt) EXCEPT !.classification = classification,
                                                    !.classificationConfidence = "medium"]

\* the times of the rows of n emails that one import or two imports inserted
ImportTimes(n) == {ts \in [1..n -> 1..2] : \A i \in 1..(n - 1) : ts[i] <= ts[i + 1]}

StatsStores ==
    UNION {{[i \in 1..n |-> Classified(i, cs[i], ts[i])] :
               cs \in [1..n -> Allowed \cup {NULL}], ts \in ImportTimes(n)} :
           n \in 0..MaxStatsEmails}

EmailsQueries == [classification : Categories \cup {NULL, "all"}, limit : {UNDEF, 1}]

InitStats ==
    /\ area = "stats"
    /\ mode = "postgresql"
    /\ emails \in StatsStores
    /\ calendarEvents = <<>> /\ ragChunks = <<>> /\ importLogs = <<>>
    /\ conversations = <<>> /\ messages = <<>> /\ appSettings = <<>>
    /\ req \in {NewReq("emails", q) : q \in EmailsQueries}
              \cup {NewReq("classificationStats", NULL)}
    /\ call = NoCall

NextStats ==
    \/ \E env \in {"ok", "fails"} : ClassificationStats(env)
    \/ \E env \in {"ok", "fails"} : EmailsList(env)

SpecStats == InitStats /\ [][NextStats]_vars

(***************************************************************************)
(* Start-up: the module of the database handle is evaluated, then the      *)
(* module of the storage, then the server listens and serves the storage   *)
(* settings to two clients, whose requests interleave at every await.  The *)
(* environment is read from process.env.                                   *)
(***************************************************************************)
Environments ==
    [STORAGE_MODE : {NULL, "local", "postgresql", "sqlite"},
     DATA_DIR : {NULL, "/data"},
     DATABASE_URL : {NULL, "postgres://db"}]

NoHandle == [_db |-> NULL, storage |-> NULL, error |-> NULL, nullUse |-> FALSE]

Startup(env) == [fn |-> "startup", pc |-> "db", arg |-> env, result |-> NoHandle]

isLocalMode(env) == env.STORAGE_MODE = "local"

\* the top level of the module that owns the handle
LoadDb ==
    /\ call.fn = "startup" /\ call.pc = "db"
    /\ UNCHANGED <<area, mode, req, store>>
    /\ call' = IF ~isLocalMode(call.arg)
               THEN IF ~Truthy(call.arg.DATABASE_URL)
                    THEN [call EXCEPT !.pc = "failed", !.result.error = "DATABASE_URL must be set"]
                    ELSE [call EXCEPT !.pc = "storage", !.result._db = "drizzle"]
               ELSE [call EXCEPT !.pc = "storage"]

OrDefault(v, d) == IF Truthy(v) THEN v ELSE d

createStorage(env) ==
    IF OrDefault(env.STORAGE_MODE, "postgresql") = "local" /\ Truthy(OrDefault(env.DATA_DIR, ""))
    THEN "LocalSQLiteStorage"
    ELSE "DatabaseStorage"

CreateStorage ==
    /\ call.fn = "startup" /\ call.pc = "storage"
    /\ UNCHANGED <<area, req, store>>
    /\ call' = [call EXCEPT !.pc = "listening", !.result.storage = createStorage(call.arg)]
    /\ mode' = IF createStorage(call.arg) = "LocalSQLiteStorage" THEN "local" ELSE "postgresql"

StorageGet(p, env) ==
    LET r0 == NewReq("storageGet", NULL)
        saved == getAppSetting(appSettings)
        config == IF saved = <<>> THEN [mode |-> "postgresql", dataDir |-> ""] ELSE saved[1]
        currentMode == OrDefault(call.arg.STORAGE_MODE, "postgresql")
        currentDataDir == OrDefault(call.arg.DATA_DIR, "")
    IN /\ Listening(p)
       /\ UNCHANGED <<area, mode, store>>
       /\ call' = [call EXCEPT !.result.nullUse = @ \/ NullHandle]
       /\ req' = SetReq(p,
             IF NullHandle \/ env = "fails"
             THEN OnThrow(Threw(r0, "getAppSetting"), ErrBody("error"))
             ELSE Send(r0, 200,
                       [mode |-> currentMode, dataDir |-> currentDataDir,
                        savedMode |-> config.mode, savedDataDir |-> config.dataDir,
                        info |-> IF currentMode = "local" /\ Truthy(currentDataDir)
                                 THEN "local" ELSE "postgresql",
                        needsRestart |-> config.mode # currentMode
                                         \/ config.dataDir # currentDataDir]))

InitStartup ==
    /\ area = "startup"
    /\ mode = "postgresql"
    /\ emails = <<>> /\ calendarEvents = <<>> /\ ragChunks = <<>> /\ importLogs = <<>>
    /\ conversations = <<>> /\ messages = <<>> /\ appSettings = <<>>
    /\ req = [p \in Procs |-> Idle]
    /\ call \in {Startup(env) : env \in Environments}

NextStartup ==
    \/ LoadDb
    \/ CreateStorage
    \/ \E p \in Procs, env \in Outcomes : StorageGet(p, env)
    \/ \E p \in Procs, in \in SettingsInputs, env \in Outcomes : SettingsPost(p, in, env)
    \/ \E p \in Procs, env \in Outcomes : SettingsWrite(p, env)

SpecStartup == InitStartup /\ [][NextStartup]_vars

(***************************************************************************)
(* parsePSTFile on every outcome of the extractor library and of the       *)
(* readpst tool, followed by POST /api/import of the uploaded .pst file.   *)
(***************************************************************************)
PSTParseResult(es, errs) ==
    [emails |-> es, totalCount |-> Len(es), errorCount |-> Len(errs), errors |-> errs]

\* messages of the exception the extractor throws when it cannot open the file
ExtractorMessages == {"findBtreeItem", "Unable to find", "password", "encrypted", "ENOENT"}

ErrorLists(e) == {<<>>, <<e>>}

\* the extractor walks the folders, and a folder or a message it cannot read adds an
\* error and the walk goes on; it throws when it cannot open the file, or later in the
\* walk (the catch block of processFolder reads the name of the folder it failed on),
\* and then emails and errors hold what the walk had collected
ExtractorOutcomes ==
    [threw : {TRUE}, errMsg : ExtractorMessages, emails : ParsedBatches,
     errors : ErrorLists("Error processing folder")]
    \cup [threw : {FALSE}, errMsg : {NULL}, emails : ParsedBatches,
          errors : ErrorLists("Error processing folder")]

\* readpst: the tool cannot be run or a directory cannot be read (failed), the .eml
\* files it wrote that parse, and those that cannot be read
ReadpstOutcomes ==
    [failed : BOOLEAN, emails : ParsedBatches, emlErrors : ErrorLists("EML")]

\* readpst is run only when the extractor threw
ReadpstNotRun == [failed |-> FALSE, emails |-> <<>>, emlErrors |-> <<>>]

parseWithReadpst(fb) ==
    PSTParseResult(fb.emails, fb.emlErrors \o (IF fb.failed THEN <<"readpst">> ELSE <<>>))

openError(errMsg) ==
    IF errMsg \in {"findBtreeItem", "Unable to find"} THEN "format"
    ELSE IF errMsg \in {"password", "encrypted"} THEN "protected"
    ELSE "open"

parsePSTFile_nofallback(p, fb) ==
    IF ~p.threw THEN PSTParseResult(p.emails, p.errors)
    ELSE PSTParseResult(p.emails,
                        p.errors \o <<openError(p.errMsg)>> \o parseWithReadpst(fb).errors)

\* emails and errors are the arrays the walk pushes to; the catch block appends to errors
parsePSTFile(p, fb) ==
    IF ~p.threw THEN PSTParseResult(p.emails, p.errors)
    ELSE LET fallbackResult == parseWithReadpst(fb)
         IN IF Len(fallbackResult.emails) > 0 THEN fallbackResult
            ELSE PSTParseResult(p.emails,
                                p.errors \o <<openError(p.errMsg)>> \o fallbackResult.errors)

PstCall(p, fb) ==
    [fn |-> "parsePSTFile", pc |-> "called", arg |-> [extractor |-> p, readpst |-> fb],
     result |-> <<>>]

\* the file of the request as the handler sees it once parsePSTFromBuffer has returned
PstFile(result) ==
    [present |-> TRUE, name |-> <<"m", ".", "p", "s", "t">>, emails |-> result.emails,
     errors |-> Len(result.errors)]

PstParse ==
    /\ call.fn = "parsePSTFile" /\ call.pc = "called"
    /\ call' = [call EXCEPT !.pc = "returned",
                            !.result = <<parsePSTFile(call.arg.extractor, call.arg.readpst)>>]
    /\ UNCHANGED <<area, mode, req, store>>

PstImport(env) ==
    /\ call.fn = "parsePSTFile" /\ call.pc = "returned"
    /\ req.handler = "none"
    /\ ImportInsert(0, PstFile(call.result[1]), env)

InitPst ==
    /\ area = "pst"
    /\ mode = "postgresql"
    /\ emails = <<>> /\ calendarEvents = <<>> /\ ragChunks = <<>> /\ importLogs = <<>>
    /\ conversations = <<>> /\ messages = <<>> /\ appSettings = <<>>
    /\ req = Idle
    /\ call \in {PstCall(p, fb) : p \in {x \in ExtractorOutcomes : x.threw},
                                   fb \in ReadpstOutcomes}
              \cup {PstCall(p, ReadpstNotRun) : p \in {x \in ExtractorOutcomes : ~x.threw}}

NextPst ==
    \/ PstParse
    \/ \E env \in Outcomes : PstImport(env)
    \/ \E env \in Outcomes : ImportLog(0, env)
    \/ \E ollamaConnected \in BOOLEAN : ImportCheck(0, ollamaConnected)
    \/ \E raw \in MainLLMOutputs, env \in Outcomes : ClassifyUpdate(0, raw, env)
    \/ \E evs \in EventSeqs : ExtractEvents(0, evs)
    \/ AddEvent(0)
    \/ \E n \in 0..MaxChunks, env \in {"ok", "generateFails", "saveFails"} : SaveChunks(0, n, env)
    \/ \E env \in Outcomes : MarkProcessed(0, env)

SpecPst == InitPst /\ [][NextPst]_vars

(***************************************************************************)
(* Two requests served at the same time.  A handler runs until its next    *)
(* await and the other handler may run in between, so each storage call is *)
(* one step; a call to the LLM touches no table and is taken together with *)
(* the storage call that follows it, and so is the loop that adds the      *)
(* events of one extraction.  Here req holds the two requests, and trace   *)
(* lists the emails for which the request has stored extracted events.     *)
(***************************************************************************)
JsonFiles ==
    [present : {TRUE}, name : {JsonName}, emails : ParsedBatches, errors : {0}]

\* the emails of an import that found the AI server unreachable
ImportedWithoutAI == {insertEmailsAndGetIds(<<>>, es) : es \in ParsedBatches}

InitConcurrent ==
    /\ area = "concurrent"
    /\ mode = "postgresql"
    /\ calendarEvents = <<>> /\ ragChunks = <<>> /\ importLogs = <<>>
    /\ conversations = <<>> /\ messages = <<>> /\ appSettings = <<>>
    /\ call = NoCall
    /\ \/ /\ emails \in ImportedWithoutAI
          /\ req = <<NewReq("reprocess", NULL), NewReq("reprocess", NULL)>>
       \/ /\ emails = <<>>
          /\ req \in {<<NewReq("import", file), NewReq("reprocess", NULL)>> : file \in JsonFiles}

NextConcurrent ==
    \E p \in Procs :
        \/ \E env \in Outcomes : ImportInsert(p, req[p].input, env)
        \/ \E env \in Outcomes : ImportLog(p, env)
        \/ \E ollamaConnected \in BOOLEAN : ImportCheck(p, ollamaConnected)
        \/ \E env \in {"notConnected", "getAllFails", "connected"} : ReprocessStart(p, env)
        \/ \E raw \in MainLLMOutputs, env \in Outcomes : ClassifyUpdate(p, raw, env)
        \/ \E env \in Outcomes : GetEvents(p, env)
        \/ \E evs \in EventSeqs : ExtractEvents(p, evs)
        \/ AddEvent(p)
        \/ \E env \in Outcomes : GetChunks(p, env)
        \/ \E n \in 0..MaxChunks, env \in {"ok", "generateFails", "saveFails"} :
               SaveChunks(p, n, env)
        \/ \E env \in Outcomes : MarkProcessed(p, env)

SpecConcurrent == InitConcurrent /\ [][NextConcurrent]_vars

(***************************************************************************)
(* The methods of IStorage that no route calls (insertEmail, insertEmails, *)
(* clearCalendarEvents, clearRagChunks), called on the exported storage    *)
(* object by two callers at the same time, together with saveRagChunks,    *)
(* which may run while a clearRagChunks is suspended.  call[p] holds the   *)
(* method that caller p called last, its position, its argument and what   *)
(* it returns; req[p].nth counts the calls of p.                           *)
(***************************************************************************)
StorageCall(fn, pc, arg, result) == [fn |-> fn, pc |-> pc, arg |-> arg, result |-> result]

\* an email with the optional columns passed, and one with empty strings passed for them
ClassifiedEmail ==
    [subject |-> <<"a">>, sender |-> <<"x">>, date |-> <<"1">>, body |-> <<"b">>,
     classification |-> "task", classificationConfidence |-> "high", isProcessed |-> "true"]

BlankColumnsEmail ==
    [subject |-> <<"a">>, sender |-> <<"x">>, date |-> <<"1">>, body |-> <<"b">>,
     classification |-> "", classificationConfidence |-> "", isProcessed |-> ""]

InsertEmailInputs == {MainEmail, ClassifiedEmail, BlankColumnsEmail}

InsertEmailBatches == UNION {[1..n -> InsertEmailInputs] : n \in 0..MaxBatch}

CanCall(p) == call[p].pc = "returned" /\ req[p].nth < MaxRequests

Returns(p, fn, arg, result) == [call EXCEPT ![p] = StorageCall(fn, "returned", arg, result)]

Called(p) == [req EXCEPT ![p].nth = @ + 1]

StorageInsertEmail(p, e) ==
    LET inserted == insertEmail(emails, e)
    IN /\ CanCall(p)
       /\ Len(emails) < MaxEmails
       /\ emails' = inserted
       /\ call' = Returns(p, "insertEmail", <<e>>, <<inserted[Len(inserted)]>>)
       /\ req' = Called(p)
       /\ UNCHANGED <<area, mode, calendarEvents, ragChunks, importLogs, chatTables>>

\* no statement runs for an empty array
StorageInsertEmails(p, es) ==
    /\ CanCall(p)
    /\ Len(emails) + Len(es) <= MaxEmails
    /\ emails' = IF es = <<>> THEN emails ELSE insertEmails(emails, es)
    /\ call' = Returns(p, "insertEmails", es, <<Len(es)>>)
    /\ req' = Called(p)
    /\ UNCHANGED <<area, mode, calendarEvents, ragChunks, importLogs, chatTables>>

\* DatabaseStorage returns the row count of its DELETE, LocalSQLiteStorage counts and
\* deletes without yielding
StorageClearCalendarEvents(p) ==
    /\ CanCall(p)
    /\ calendarEvents' = clearCalendarEvents(calendarEvents)
    /\ call' = Returns(p, "clearCalendarEvents", <<>>, <<Len(calendarEvents)>>)
    /\ req' = Called(p)
    /\ UNCHANGED <<area, mode, emails, ragChunks, importLogs, chatTables>>

\* clearRagChunks up to the getRagChunkCount it awaits, in both storages
StorageClearRagChunks(p) ==
    /\ CanCall(p)
    /\ call' = [call EXCEPT ![p] = StorageCall("clearRagChunks", "delete", <<>>,
                                               <<getRagChunkCount(ragChunks)>>)]
    /\ req' = Called(p)
    /\ UNCHANGED <<area, mode, store>>

\* the DELETE of clearRagChunks; it returns the count it read before
StorageDeleteRagChunks(p) ==
    /\ call[p].fn = "clearRagChunks" /\ call[p].pc = "delete"
    /\ ragChunks' = clearRagChunks(ragChunks)
    /\ call' = [call EXCEPT ![p].pc = "returned"]
    /\ UNCHANGED <<area, mode, req, emails, calendarEvents, importLogs, chatTables>>

\* saveRagChunks of n chunks of the first email: one transaction
StorageSaveRagChunks(p, n) ==
    /\ CanCall(p)
    /\ Len(ragChunks) + n <= MaxBatch * MaxChunks
    /\ ragChunks' = IF n = 0 THEN ragChunks ELSE saveRagChunks(ragChunks, 1, n)
    /\ call' = Returns(p, "saveRagChunks", <<n>>, <<n>>)
    /\ req' = Called(p)
    /\ UNCHANGED <<area, mode, emails, calendarEvents, importLogs, chatTables>>

InitStorage ==
    /\ area = "storage"
    /\ mode \in {"local", "postgresql"}
    /\ \/ emails = <<>> /\ calendarEvents = <<>> /\ ragChunks = <<>>
       \/ /\ emails = EarlierEmails
          /\ calendarEvents \in {<<>>, EarlierEvents}
          /\ ragChunks \in {<<>>, saveRagChunks(<<>>, 1, MaxChunks)}
    /\ importLogs = <<>>
    /\ conversations = <<>> /\ messages = <<>> /\ appSettings = <<>>
    /\ req = [p \in Procs |-> Idle]
    /\ call = [p \in Procs |-> NoCall]

NextStorage ==
    \E p \in Procs :
        \/ \E e \in InsertEmailInputs : StorageInsertEmail(p, e)
        \/ \E es \in InsertEmailBatches : StorageInsertEmails(p, es)
        \/ StorageClearCalendarEvents(p)
        \/ StorageClearRagChunks(p)
        \/ StorageDeleteRagChunks(p)
        \/ \E n \in 0..MaxChunks : StorageSaveRagChunks(p, n)

SpecStorage == InitStorage /\ [][NextStorage]_vars

(***************************************************************************)
(* Properties of the mail handlers                                         *)
(***************************************************************************)
Done(h) == req.pc = "done" /\ req.handler = h /\ Len(req.sent) = 1
Status == req.sent[1].status
Body == req.sent[1].body
Stored(id) == getEmailById(emails, id) # <<>>
Row(id) == getEmailById(emails, id)[1]

\* C1: an uploaded .pst, .eml or .json file from which at least one email can be
\* parsed is not answered with 400 "unsupported file format", and unless storage
\* fails its emails are inserted
C1_ImportAcceptsPstEmlJson ==
    /\ Done("import")
    /\ req.input.present
    /\ ExtOf(req.input.name) \in {Pst, Eml, Json}
    /\ Len(req.input.emails) >= 1
    => /\ ~(Status = 400 /\ Body.message = "unsupported")
       /\ ~req.caught => /\ Len(req.queue) = Len(req.input.emails)
                         /\ \A i \in DOMAIN req.queue : Stored(req.queue[i].id)

\* C2: with the AI server connected, an import whose insert and log succeeded runs
\* one iteration for every inserted email whatever failed before it, keeps all the
\* inserted emails, and answers 200 with ok = true and inserted = their number;
\* an email whose iteration succeeded is classified and marked processed
C2_ImportSkipsAndLogs ==
    Done("import") /\ req.connected
    => /\ Status = 200
       /\ Body.ok
       /\ Body.inserted = Len(req.queue)
       /\ Len(req.queue) = Len(ImportParse(req.input).emails)
       /\ Len(req.oks) = Len(req.queue)
       /\ \A i \in DOMAIN req.queue :
             /\ Stored(req.queue[i].id)
             /\ req.oks[i] => /\ Row(req.queue[i].id).isProcessed = "true"
                              /\ Truthy(Row(req.queue[i].id).classification)

C2_Witness ==
    /\ Done("import") /\ req.connected
    /\ Len(req.oks) = 2 /\ ~req.oks[1] /\ req.oks[2]
    /\ "storage" \in req.skipped
    /\ Status = 200

\* C3: when reprocess answers that there is nothing to process, every stored email
\* has a classification and isProcessed = "true"
C3_NothingToProcessMeansAllProcessed ==
    Done("reprocess") /\ Status = 200 /\ Body.message = "nothingToProcess"
    => \A i \in DOMAIN emails : /\ Truthy(emails[i].classification)
                                /\ emails[i].isProcessed = "true"

\* C5: every calendar event with an email id and every RAG chunk refers to a
\* stored email
C5_EventsAndChunksReferToEmails ==
    /\ \A i \in DOMAIN calendarEvents :
          calendarEvents[i].emailId # UNDEF => Stored(calendarEvents[i].emailId)
    /\ \A i \in DOMAIN ragChunks : Stored(ragChunks[i].emailId)

C5_Witness ==
    /\ Done("eventsExtract") /\ Status = 200
    /\ Len(emails) = NSampleEmails
    /\ Len(calendarEvents) >= 2
    /\ calendarEvents[Len(calendarEvents)].emailId = req.input
    /\ ragChunks # <<>>

\* the name POST /api/import logs: that of the uploaded file, or that of the sample
LoggedName(file) == IF file.present THEN file.name ELSE <<"sample_demo_data">>

\* C7: an import that finds the AI server not connected has inserted every parsed
\* email (the sample emails when the request has no file), unclassified and with
\* isProcessed = "false", has written the import log, has created no calendar
\* event and no RAG chunk for them, and answers ok = true with classified =
\* eventsExtracted = embedded = 0
C7_ImportWithoutAI ==
    Done("import") /\ Status = 200 /\ ~req.connected
    => /\ Body.ok
       /\ Body.inserted = Len(ImportParse(req.input).emails)
       /\ Body.classified = 0 /\ Body.eventsExtracted = 0 /\ Body.embedded = 0
       /\ Len(req.queue) = Len(ImportParse(req.input).emails)
       /\ \A i \in DOMAIN req.queue :
             /\ Stored(req.queue[i].id)
             /\ Row(req.queue[i].id).classification = NULL
             /\ Row(req.queue[i].id).isProcessed = "false"
             /\ getCalendarEventsByEmailId(calendarEvents, req.queue[i].id) = <<>>
             /\ getRagChunksByEmailId(ragChunks, req.queue[i].id) = <<>>
       /\ importLogs # <<>>
       /\ importLogs[Len(importLogs)] =
              [filename |-> LoggedName(req.input), emailsImported |-> Len(req.queue)]

C7_Witness ==
    /\ Done("import") /\ Status = 200 /\ ~req.connected
    /\ ~req.input.present
    /\ Len(req.queue) = NSampleEmails
    /\ Len(emails) = 2 * NSampleEmails
    /\ calendarEvents # <<>> /\ ragChunks # <<>>

(***************************************************************************)
(* Properties of the chat handlers and of all handlers                     *)
(***************************************************************************)
\* C4: every stored message's conversationId is the id of a stored conversation
C4_MessagesReferToConversations ==
    \A i \in DOMAIN messages :
        \E j \in DOMAIN conversations : conversations[j].id = messages[i].conversationId

\* the requests each handler answers with 400
InvalidInput(r) ==
    CASE r.handler = "import" ->
            ImportParse(r.input).reject # "none" \/ ImportParse(r.input).emails = <<>>
      [] r.handler \in {"eventsExtract", "classify", "messages"} -> r.input = UNDEF
      [] r.handler = "draftReply" -> r.input \in {UNDEF, 0}
      [] r.handler = "aiChat" -> r.input.message = ""
      [] r.handler = "settingsPost" ->
            \/ r.input.mode \notin {"local", "postgresql"}
            \/ r.input.mode = "local" /\ r.input.dataDir = ""
      [] r.handler = "search" ->
            \/ r.input.topK # UNDEF /\ (r.input.topK < 1 \/ r.input.topK > 50)
            \/ /\ trim(OrEmpty(r.input.message)) = <<>>
               /\ \/ r.input.filters = <<>>
                  \/ \A field \in {"sender", "subject", "body"} :
                        trim(OrEmpty(r.input.filters[1][field])) = <<>>
      [] OTHER -> FALSE

MissingEmail(r) ==
    /\ r.handler \in {"eventsExtract", "classify", "draftReply"}
    /\ ~InvalidInput(r)
    /\ ~Stored(r.input)

NoAI(r) == r.handler \in {"reprocess", "processUnprocessed"} /\ ~r.connected

\* the eighteen routes
Handlers ==
    {"stats", "import", "search", "ping", "ollamaStatus", "conversations", "messages",
     "aiChat", "draftReply", "classificationStats", "reprocess", "eventsExtract", "events",
     "emails", "classify", "settingsGet", "settingsPost", "processUnprocessed"}

LoopHandlers == {"import", "reprocess", "processUnprocessed"}

\* what the three loops do inside the try/catch of an iteration; addCalendarEvent has a
\* try/catch of its own inside it
IterationCalls ==
    {"updateEmailClassification", "getCalendarEventsByEmailId", "event", "addCalendarEvent",
     "getRagChunksByEmailId", "generateEmailChunks", "saveRagChunks", "markEmailProcessed"}

\* the calls of the request that threw where no inner try/catch holds them, so that the
\* exception reaches the catch block of the handler; the catch block of
\* GET /api/ollama/status answers 200
Uncaught(r) ==
    {f \in r.faults : ~(r.handler \in LoopHandlers /\ f \in IterationCalls)}

Fatal(r) == IF r.handler = "ollamaStatus" THEN {} ELSE Uncaught(r)

\* the part of C6 that does not depend on what counts as a failure: one response
\* once the handler is done and none before, no exception escapes, 400 exactly for
\* invalid input, 404 for a missing email, 503 exactly when reprocess or
\* process-unprocessed finds the AI server unreachable
OneResponse(r) ==
    /\ ~r.escaped
    /\ r.handler \in Handlers \cup {"none"}
    /\ r.pc # "done" => r.sent = <<>>
    /\ r.pc = "done" /\ r.handler # "none" =>
          /\ Len(r.sent) = 1
          /\ r.sent[1].status \in {200, 400, 404, 500, 503}
          /\ r.sent[1].status = 400 <=> InvalidInput(r)
          /\ r.sent[1].status = 404 => MissingEmail(r)
          /\ MissingEmail(r) /\ r.faults = {} => r.sent[1].status = 404
          /\ r.sent[1].status = 503 <=> NoAI(r)

\* what may throw without being a call to storage or to the LLM: the loop over the
\* events of an answer that is not an array, and the connection check
OtherFaults == {"event", "checkOllamaConnection"}

\* C6 as stated: every handler sends exactly one response, the response is 500 when
\* a storage or LLM call of the request threw, and it is not 500 when nothing threw
C6_Original ==
    /\ OneResponse(req)
    /\ req.pc = "done" /\ req.handler # "none" =>
          /\ req.faults \ OtherFaults # {} => Status = 500
          /\ Status = 500 => req.faults # {}

\* C6: every handler sends exactly one response: 400 for invalid input, 404 for a
\* missing email, 503 when reprocess or process-unprocessed finds the AI server
\* unreachable, 500 exactly when a call threw outside the try/catch of a loop
\* iteration of import, reprocess or process-unprocessed (GET /api/ollama/status
\* answers 200 then as well), and 200 otherwise; a call that throws inside an
\* iteration leaves the response at 200, and the iteration is counted as failed
\* unless the call was addCalendarEvent
C6_OneResponsePerRequest ==
    /\ OneResponse(req)
    /\ req.pc = "done" /\ req.handler # "none" =>
          /\ Status = 500 <=> Fatal(req) # {}
          /\ Status = 404 <=> MissingEmail(req) /\ Fatal(req) = {}
          /\ Status = 200 <=> /\ ~InvalidInput(req) /\ ~MissingEmail(req) /\ ~NoAI(req)
                               /\ Fatal(req) = {}
          /\ req.handler = "ollamaStatus" => Body.connected = (req.connected /\ req.faults = {})
          /\ req.handler \in LoopHandlers /\ Status = 200 =>
                /\ req.faults \subseteq IterationCalls
                /\ (req.faults \ {"addCalendarEvent"} # {}) <=>
                      (\E i \in DOMAIN req.oks : ~req.oks[i])

C6_Witness ==
    /\ Done("import") /\ Status = 200
    /\ ~req.input.present
    /\ req.faults = {"addCalendarEvent", "saveRagChunks"}
    /\ Len(req.oks) = NSampleEmails
    /\ ~req.oks[1] /\ \A i \in 2..NSampleEmails : req.oks[i]

(***************************************************************************)
(* Properties of classifyEmail                                             *)
(***************************************************************************)
\* C8: whatever the LLM answers, and when the LLM call throws, classifyEmail returns
\* a classification among task, meeting, approval, notice and a confidence among
\* high, medium, low
C8_ClassifyEmailNeverFails ==
    call.fn = "classifyEmail" /\ call.pc = "returned"
    => /\ Len(call.result) = 1
       /\ call.result[1].classification \in Allowed
       /\ call.result[1].confidence \in Confidences

C8_Witness ==
    /\ call.fn = "classifyEmail" /\ call.pc = "returned"
    /\ call.arg.kind = "json"
    /\ call.arg.classification = "reference"
    /\ call.arg.confidence = "certain"
    /\ call.result = <<[classification |-> "task", confidence |-> "medium"]>>

(***************************************************************************)
(* Properties of POST /api/search                                          *)
(***************************************************************************)
Blank(v) == v = NoText \/ trim(v) = <<>>

AllFiltersBlank(body) ==
    \/ body.filters = <<>>
    \/ \A field \in {"sender", "subject", "body", "startDate", "endDate"} :
          Blank(body.filters[1][field])

TopKValid(body) == body.topK = UNDEF \/ (body.topK >= 1 /\ body.topK <= 50)

\* C9: a search request is accepted exactly when its message or one of the filters
\* sender, subject, body, startDate, endDate is non-blank and topK, if given, is
\* within 1..50; the issue "enter a search term or a filter" is raised only when
\* the message and the five filters are all blank
C9_SearchAcceptsMessageOrFilter ==
    Done("search")
    => /\ Status # 400 <=> /\ ~Blank(req.input.message) \/ ~AllFiltersBlank(req.input)
                           /\ TopKValid(req.input)
       /\ Status = 400 /\ (\E i \in DOMAIN Body.error : Body.error[i] = "enterTermOrFilter")
          => Blank(req.input.message) /\ AllFiltersBlank(req.input)

\* what the filters of a request ask of an email
FilterChecks(e, f) ==
    (IF Supplied(f.sender) THEN <<Like(e.sender, trim(f.sender))>> ELSE <<>>)
    \o (IF Supplied(f.subject) THEN <<Like(e.subject, trim(f.subject))>> ELSE <<>>)
    \o (IF Supplied(f.body) THEN <<Like(e.body, trim(f.body))>> ELSE <<>>)
    \o (IF Supplied(f.startDate) \/ Supplied(f.endDate)
        THEN <<(Supplied(f.startDate) => LexLeq(trim(f.startDate), e.date))
               /\ (Supplied(f.endDate) => LexLeq(e.date, trim(f.endDate)))>>
        ELSE <<>>)

Satisfies(e, filters) ==
    \/ filters = <<>>
    \/ LET checks == FilterChecks(e, filters[1])
       IN IF filters[1].operator = "or" /\ checks # <<>>
          THEN \E i \in DOMAIN checks : checks[i]
          ELSE \A i \in DOMAIN checks : checks[i]

Cited(e) == \E i \in DOMAIN Body.citations : Body.citations[i].mailId = String(e.id)

\* C10: every citation of an answered search is an email that satisfies the
\* request's filters, and a request with filters and a blank message is answered
\* with emails that match the filters when there are any
C10_SearchAppliesFilters ==
    Done("search") /\ Status = 200
    => /\ \A i \in DOMAIN emails : Cited(emails[i]) => Satisfies(emails[i], req.input.filters)
       /\ /\ Blank(req.input.message)
          /\ ~AllFiltersBlank(req.input)
          /\ \E i \in DOMAIN emails : Satisfies(emails[i], req.input.filters)
          => Body.citations # <<>>

(***************************************************************************)
(* Properties of the email list and the classification statistics          *)
(***************************************************************************)
\* C11: for each of the five categories, GET /api/emails?classification=c answers
\* exactly the emails that the classification statistics count under c, so the
\* length of the list is the count reported, and the five counts sum to total
C11_ListMatchesStats ==
    LET all == getAllEmails(emails, ALL_EMAILS_LIMIT)
        stats == classificationStats(all)
    IN /\ stats["task"] + stats["meeting"] + stats["approval"] + stats["notice"]
          + stats["unclassified"] = stats["total"]
       /\ /\ Done("emails") /\ Status = 200
          /\ req.input.classification \in Categories /\ req.input.limit = UNDEF
          => /\ Body = SelectSeq(all, LAMBDA e : statsCategory(e) = req.input.classification)
             /\ Len(Body) = stats[req.input.classification]

\* C12: with STORAGE_MODE 'local' the storage the server serves from is the
\* local SQLite storage and no operation is made on the PostgreSQL handle that
\* was never initialised; with any other STORAGE_MODE either start-up fails
\* with the DATABASE_URL error, or the handle is initialised and the storage
\* is the PostgreSQL one.
C12_StorageFollowsMode ==
    call.fn = "startup" =>
        IF isLocalMode(call.arg)
        THEN /\ call.pc # "failed"
             /\ call.pc = "listening" => call.result.storage = "LocalSQLiteStorage"
             /\ ~call.result.nullUse
        ELSE \/ /\ call.pc = "failed"
                /\ ~Truthy(call.arg.DATABASE_URL)
                /\ call.result.error = "DATABASE_URL must be set"
             \/ /\ call.pc = "db"
             \/ /\ call.pc \in {"storage", "listening"}
                /\ call.result._db # NULL
                /\ call.pc = "listening" => call.result.storage = "DatabaseStorage"
                /\ ~call.result.nullUse

PstReturned == call.fn = "parsePSTFile" /\ call.pc = "returned"
PstResult == call.result[1]
Fallback == parseWithReadpst(call.arg.readpst)
Extractor == call.arg.extractor

\* the fallback as the claim states it: the result of readpst if it has an email, else
\* no email and the message of the failure followed by the errors of readpst
PstFallsBackToEmpty ==
    PstReturned /\ Extractor.threw =>
        IF Len(Fallback.emails) > 0
        THEN PstResult = Fallback
        ELSE /\ PstResult.emails = <<>>
             /\ PstResult.errors # <<>>
             /\ PstResult.errors = <<openError(Extractor.errMsg)>> \o Fallback.errors

\* what parsePSTFile returns: what the extractor collected when it did not throw; when
\* it threw, the result of readpst if that has an email, else the emails and the errors
\* collected before the throw, then the message of the failure, then the errors of
\* readpst
PstFallsBack ==
    PstReturned =>
        /\ PstResult.totalCount = Len(PstResult.emails)
        /\ PstResult.errorCount = Len(PstResult.errors)
        /\ ~Extractor.threw =>
              PstResult.emails = Extractor.emails /\ PstResult.errors = Extractor.errors
        /\ Extractor.threw /\ Len(Fallback.emails) > 0 => PstResult = Fallback
        /\ Extractor.threw /\ Len(Fallback.emails) = 0 =>
              /\ PstResult.emails = Extractor.emails
              /\ PstResult.errors # <<>>
              /\ PstResult.errors =
                     Extractor.errors \o <<openError(Extractor.errMsg)>> \o Fallback.errors
              /\ PstResult.emails = <<>> <=> Extractor.emails = <<>>

ErrorsAndNoEmails == PstResult.errors # <<>> /\ PstResult.emails = <<>>

\* C13 as stated: parsePSTFile falls back to readpst when the extractor fails,
\* returns the fallback's result if it has an email and otherwise no email and
\* the failure message followed by the fallback's errors, and POST /api/import
\* answers 400 for exactly the results that have errors and no email.
C13_Original ==
    /\ PstFallsBackToEmpty
    /\ PstReturned /\ Done("import") => (Status = 400 <=> ErrorsAndNoEmails)

\* C13: parsePSTFile falls back to readpst when the extractor throws and returns
\* the fallback's result if it has an email; otherwise it returns the emails and
\* the errors the extractor collected before it threw, followed by the failure
\* message and the fallback's errors.  POST /api/import answers 400 with the PST
\* parsing error for exactly the results that have errors and no email, 400 with
\* another message for the results that have neither, and imports every result
\* that has an email: all its emails are inserted unless storage fails.
C13_PstFallbackAndReject ==
    /\ PstFallsBack
    /\ PstReturned /\ Done("import") =>
          /\ (Status = 400 /\ Body.message = "pstError") <=> ErrorsAndNoEmails
          /\ (Status = 400 /\ Body.message = "noEmails") <=>
                (PstResult.errors = <<>> /\ PstResult.emails = <<>>)
          /\ Status = 400 <=> PstResult.emails = <<>>
          /\ Status = 200 => Body.inserted = Len(PstResult.emails)

C13_Witness ==
    /\ PstReturned /\ Done("import")
    /\ Extractor.threw
    /\ Len(Extractor.emails) = 1 /\ Extractor.errors # <<>>
    /\ Fallback.emails = <<>> /\ Fallback.errors # <<>>
    /\ Len(PstResult.errors) = Len(Extractor.errors) + 1 + Len(Fallback.errors)
    /\ Status = 200 /\ Body.inserted = 1
    /\ Len(emails) = 1

StoredEventsFor(p, id) == \E i \in DOMAIN req[p].trace : req[p].trace[i] = id

\* C14: when an import and a reprocess, or two reprocesses, are served at the
\* same time, no email has calendar events stored by both requests, and no two
\* rows of the RAG chunks have the same emailId and chunkIndex.
C14_NoDuplicateWork ==
    /\ \A i \in DOMAIN emails : ~(StoredEventsFor(1, emails[i].id) /\ StoredEventsFor(2, emails[i].id))
    /\ \A i, j \in DOMAIN ragChunks :
          i # j => ~(/\ ragChunks[i].emailId = ragChunks[j].emailId
                     /\ ragChunks[i].chunkIndex = ragChunks[j].chunkIndex)

\* a chat request that went through retrieval and was answered
Retrieved == Done("aiChat") /\ Status = 200 /\ Body.response \in {"noData", "formatted"}
ChatHits == req.queue
NoQueryTokens == req.connected
Trace == req.trace[1]

AboveThreshold == SelectSeq(ChatHits, LAMBDA r : r.similarity >= VECTOR_MIN_SIM)
TokenMismatch(r) == ~NoQueryTokens /\ ~r.tokenMatch /\ r.similarity < TOKEN_MISMATCH_SIM
AllFilteredOut ==
    /\ AboveThreshold # <<>>
    /\ \A i \in DOMAIN AboveThreshold : TokenMismatch(AboveThreshold[i])

\* C15: when every vector hit whose similarity is at least 0.50 was dropped by the
\* token-mismatch rule, the first of these hits is the vector result of the request
\* and the first item of its context.
C15_FirstAboveThresholdUsed ==
    Retrieved /\ AllFilteredOut =>
        /\ Trace.vectorResults = <<AboveThreshold[1]>>
        /\ Trace.context # <<>>
        /\ Trace.context[1] = [src |-> "vector", key |-> AboveThreshold[1].key]

\* a chat request whose retrieval produced no context item
EmptyContext == Done("aiChat") /\ Trace.retrieved /\ Trace.context = <<>>
LastMessage == messages[Len(messages)]
NoDataStored ==
    /\ messages # <<>>
    /\ LastMessage.role = "assistant" /\ LastMessage.content = "noData"
    /\ LastMessage.conversationId = Body.conversationId

\* C16 as stated: when retrieval yields an empty context the request makes no call
\* to the LLM, and it is answered with the fixed no-data text, which is stored as
\* the assistant message.
C16_Original ==
    EmptyContext =>
        /\ ~Trace.llmCalled /\ ~Trace.normalizeCalled
        /\ Status = 200 /\ Body.response = "noData"
        /\ NoDataStored

\* C16: when retrieval yields an empty context the LLM is not called to answer;
\* the one call to the LLM is the normalization of the question made before
\* retrieval (none for a blank question); the request is answered with the fixed
\* no-data text, stored as the assistant message, unless storing it fails, and
\* then the answer is 500.
C16_NoAnswerCallOnEmptyContext ==
    EmptyContext =>
        /\ ~Trace.llmCalled
        /\ Trace.normalizeCalled <=> req.input.message # " "
        /\ Status \in {200, 500}
        /\ Status = 200 => Body.response = "noData" /\ NoDataStored
        /\ Status = 500 => req.caught

C16_Witness ==
    /\ EmptyContext /\ Status = 200
    /\ Trace.normalizeCalled /\ ~Trace.llmCalled
    /\ Trace.needBm25 /\ ChatHits # <<>>
    /\ NoDataStored

Accepted(r) ==
    /\ r.similarity >= 50
    /\ r.tokenMatch \/ NoQueryTokens \/ r.similarity >= 75
AcceptedHits == SelectSeq(ChatHits, Accepted)
MaxSimilarity == IF ChatHits = <<>> THEN 0 ELSE ChatHits[1].similarity
Sources == {Trace.context[i].src : i \in DOMAIN Trace.context}

\* C17: a vector hit is accepted exactly when its similarity is at least 0.50 and
\* its chunk contains a query token, or there is no query token, or its similarity
\* is at least 0.75; BM25 runs exactly when no vector hit was accepted or the
\* greatest similarity is below 0.50; the context holds vector hits only or BM25
\* hits only.
C17_VectorOrBm25 ==
    Done("aiChat") /\ Trace.retrieved =>
        /\ Trace.vectorResults = AcceptedHits
        /\ Trace.needBm25 <=> (AcceptedHits = <<>> \/ MaxSimilarity < 50)
        /\ Trace.bm25 > 0 => Trace.needBm25
        /\ Sources \subseteq {"vector"} \/ Sources \subseteq {"bm25"}
        /\ "vector" \in Sources => ~Trace.needBm25
        /\ "bm25" \in Sources => Trace.needBm25

C17_Witness ==
    /\ Retrieved /\ Body.response = "formatted"
    /\ ~NoQueryTokens
    /\ Len(ChatHits) = 2 /\ Len(AcceptedHits) = 1
    /\ \E i \in DOMAIN ChatHits : TokenMismatch(ChatHits[i])
    /\ ~Trace.needBm25 /\ Sources = {"vector"}

Searched == Done("search") /\ Status = 200
Query == trim(OrEmpty(req.input.message))
RequestedTopK == IF req.input.topK = UNDEF THEN TOPK_DEFAULT ELSE req.input.topK
StorageResult ==
    IF mode = "local" THEN searchEmailsLocal(emails, Query, RequestedTopK, NoFilters)
    ELSE searchEmailsDatabase(emails, Query, RequestedTopK)

\* C18: storage.searchEmails returns no result for a blank query and otherwise at
\* most max(1, topK) results, each with a score above 0, by non-increasing score;
\* POST /api/search returns them unchanged as its citations, and debug.hitsCount is
\* their number.
C18_SearchResultsRanked ==
    Searched =>
        /\ Query = <<>> => StorageResult = <<>>
        /\ Len(StorageResult) <= Max(1, RequestedTopK)
        /\ \A i \in DOMAIN StorageResult : StorageResult[i].score > 0
        /\ \A i \in DOMAIN StorageResult, j \in DOMAIN StorageResult :
              i < j => StorageResult[i].score >= StorageResult[j].score
        /\ Body.citations = StorageResult
        /\ Body.hitsCount = Len(Body.citations)

C18_Witness ==
    /\ Searched
    /\ Len(Body.citations) = 2 /\ Body.hitsCount = 2
    /\ Body.citations[1].score > Body.citations[2].score
    /\ \E i, j \in DOMAIN emails :
          /\ i < j
          /\ String(emails[j].id) = Body.citations[1].mailId
          /\ String(emails[i].id) = Body.citations[2].mailId

====
